---- MODULE Spec2Model ----
(***************************************************************************)
(* Room encryption of a Matrix client (src/matrix/e2ee/RoomEncryption.js). *)
(*                                                                         *)
(* SpecShare   : outbound side. encrypt, writeMemberChanges, the durable   *)
(*               share_room_key operations and flushPendingRoomKeyShares.  *)
(* SpecDecrypt : inbound side. prepareDecryptAll / decrypt / write, the    *)
(*               detached "check key backup" task and dispose.             *)
(*                                                                         *)
(* Every await of the source is a step boundary: a handler is one action   *)
(* per stretch of code between two awaits.                                 *)
(***************************************************************************)
EXTENDS Integers, Sequences, FiniteSets

\* ------------------------------------------------------------------ bounds

\* calls of encrypt, writeMemberChanges and flushPendingRoomKeyShares in one behaviour
MaxCalls == 2

\* the clock advances in steps of Tick ms, up to MaxTime
Tick == 30000
MaxTime == 150000
\* session cache objects created in one behaviour, the two of the constructor included
MaxCaches == 4
\* batches of events decrypted in one behaviour
MaxBatches == 1
\* events in one batch
MaxBatchSize == 2
\* entries given to one restoreMissingSessionsFromBackup call
MaxEntries == 3

\* --------------------------------------------------------------- universes

\* slots for the invocations (detached share tasks, flush calls) in flight at once
Procs == {1, 2}
RoomId == "!room"
Users == {"@a", "@b"}
\* @a has two devices, @b one
Devices == { [userId |-> "@a", deviceId |-> "A1"],
             [userId |-> "@a", deviceId |-> "A2"],
             [userId |-> "@b", deviceId |-> "B1"] }

ENCRYPTED_TYPE == "m.room.encrypted"
WITHHELD_TYPE == "org.matrix.room_key.withheld"

MEGOLM_ALGORITHM == "m.megolm.v1.aes-sha2"
OLM_ALGORITHM == "m.olm.v1.curve25519-aes-sha2"

\* DecryptionSource
Sources == {"Sync", "Timeline", "Retry"}
\* what a caller can pass as source: a DecryptionSource or something else
SourceValues == Sources \cup {"Unknown"}

SenderKeys == {"k1", "k2"}
\* the encrypted events a batch is drawn from: two of one megolm session, one of
\* another, one of another algorithm, one redacted
Events ==
    { [event_id |-> "$1", redacted |-> FALSE, algorithm |-> MEGOLM_ALGORITHM,
       sender_key |-> "k1", session_id |-> "s1"],
      [event_id |-> "$2", redacted |-> FALSE, algorithm |-> MEGOLM_ALGORITHM,
       sender_key |-> "k1", session_id |-> "s1"],
      [event_id |-> "$3", redacted |-> FALSE, algorithm |-> MEGOLM_ALGORITHM,
       sender_key |-> "k2", session_id |-> "s2"],
      [event_id |-> "$4", redacted |-> FALSE, algorithm |-> OLM_ALGORITHM,
       sender_key |-> "k1", session_id |-> "s1"],
      [event_id |-> "$5", redacted |-> TRUE, algorithm |-> MEGOLM_ALGORITHM,
       sender_key |-> "k1", session_id |-> "s1"] }
EventIds == { e.event_id : e \in Events }

\* the key of an inbound session: (sender key, session id)
SessionKey(senderKey, sessionId) == [senderKey |-> senderKey, sessionId |-> sessionId]
SessionKeys == { SessionKey(e.sender_key, e.session_id) : e \in Events }

\* what sessionBackup.getSession can answer: a session record, nothing, or an error
BackupAnswers ==
    { [kind |-> k, algorithm |-> "", sender_key |-> ""] : k \in {"M_NOT_FOUND", "error", "none"} }
    \cup { [kind |-> "session", algorithm |-> a, sender_key |-> k] :
              a \in {MEGOLM_ALGORITHM, OLM_ALGORITHM}, k \in SenderKeys }

\* operation.userIds === null : share with every member of the room
NullUserIds == {"null"}

NoSession == [session_id |-> 0]
NoRoomKeyMessage == [session_id |-> 0]
NoOperation == [id |-> 0, type |-> "none", scope |-> RoomId,
                userIds |-> {}, roomKeyMessage |-> NoRoomKeyMessage]

\* ------------------------------------------------------------------- state

VARIABLES
    \* --- collaborators of the outbound side
    members,        \* user ids the device tracker tracks for the room
    outbound,       \* the room's outbound megolm session (NoSession: none)
    nextSessionId,  \* the engine's next fresh session id
    operations,     \* the durable operations store
    nextOpId,       \* stands for the random operation id
    openTxns,       \* operations staged in a write transaction nobody completed
    lastSent,       \* the last payload handed to hsApi.sendToDevice
    \* --- RoomEncryption
    isFlushingRoomKeyShares,
    \* --- invocations in flight
    kind,           \* "idle" | "share" (_shareNewRoomKey) | "flush"
    pc,             \* where the invocation is suspended
    operation,      \* the operation object the invocation holds
    devices,        \* const devices of _processShareRoomKeyOperation
    messages,       \* devices olmEncryption.encrypt produced a message for
    queue,          \* operations a flush still has to process
    \* --- what happened (read by the properties only)
    retired,        \* session ids that were current when a member left
    shouldFlush,    \* what the last writeMemberChanges call returned
    dropped,        \* flushPendingRoomKeyShares calls that returned at the guard
    calls,          \* calls made so far
    \* --- RoomEncryption, inbound side
    sessionBackup,  \* this._sessionBackup: 0 when there is none, else the client
    disposed,       \* this._disposed
    \* --- collaborators of the inbound side
    inbound,        \* keys of the sessions in the inboundGroupSessions store
    missingKeyEventIds, \* what addMissingKeyEventIds recorded: (session key, event id)
    \* --- the batch in the pipeline prepareDecryptAll -> decrypt -> write
    phase,          \* where the batch and its detached backup check are
    source,         \* the batch's DecryptionSource
    events,         \* the events given to prepareDecryptAll
    passed,         \* the events prepareDecryptAll handed to the decryption engine
    outcome,        \* the engine's outcome for each event it was handed
    results,        \* BatchDecryptionResult.results: ids of the decrypted events
    errors,         \* BatchDecryptionResult.errors: event id -> error
    groups,         \* missingEventsBySession of the detached task
    req,            \* per session key, where _requestMissingSessionFromBackup is
    \* --- what happened (read by the properties only)
    requested,      \* session keys sessionBackup.getSession was called for
    found,          \* session keys the check after the grace timeout found stored
    wrongKey,       \* session keys the backup answered with another sender key
    opened,         \* session keys a write txn on inboundGroupSessions was opened for
    roomNotified,   \* session keys room.notifyRoomKey was called for
    notifiedMissing,\* this._notifyMissingMegolmSession was called
    storageAfterDispose, \* a detached task used the storage after dispose()
    batches,        \* batches prepared so far
    written,        \* per session key, how writeRoomKey and the txn of it ended
    lastEnable,     \* the client the last enableSessionBackup call was given, 0: no call
    \* --- session caches and the sender device cache
    megolmSyncCache,     \* this._megolmSyncCache: the id of the cache object
    megolmBackfillCache, \* this._megolmBackfillCache: the id of the cache object
    nextCacheId,         \* the id createSessionCache gives the next cache object
    disposedCaches,      \* ids of the cache objects dispose() was called on
    handed,              \* the cache the last prepareDecryptAll handed the engine, 0: none
    thrown,              \* what the last prepareDecryptAll threw, "": it returned
    senderDeviceCache,   \* this._senderDeviceCache: [key, found] per sender key set
    queried,             \* sender keys deviceTracker.getDeviceByCurve25519Key was asked for
    lookups,             \* per sender key: the queries that found its device, since the
                         \* sender device cache was created
    marks,               \* per result of the batch: "device" (setDevice), "notTracked"
                         \* (setRoomNotTrackedYet) or "none"
    isTrackingMembers,   \* this._room.isTrackingMembers when verifySenders last ran
    \* --- ensureMessageKeyIsShared
    now,                 \* the clock, in ms
    lastKeyPreShareTime, \* this._lastKeyPreShareTime: when it was created, NoTime: null
    skipped,             \* ensureMessageKeyIsShared calls that returned at the interval check
    \* --- restoreMissingSessionsFromBackup
    restorePc,      \* where the call is
    restoreEntries, \* entries: the entries the call was given
    restoreGroups,  \* groups: the session keys of the eligible entries, in order
    restoreMissing, \* missingSessions: the groups without a stored session, in order
    restoreIssued,  \* the session keys requested from the backup so far, in order
    failed,         \* session keys whose recovery from the backup failed
    \* --- _requestMissingSessionFromBackup, for each session key
    fetches,        \* this._sessionBackup.getSession calls made for it
    logged,         \* what the catch block met and what it put on the log item
    \* --- SessionContainer
    status,         \* this._status: the LoadStatus
    loadError,      \* this._error
    loginFailure,   \* this._loginFailure
    storage,        \* this._storage: "null" or "open"
    loadedSession,  \* this._session: "null", "created" or "disposed"
    sync,           \* this._sync: "null" or "created"
    syncStatus,     \* this._sync.status
    sessionStartedByReconnector,
    reconnectSubscription,   \* this._reconnectSubscription is set
    waitForFirstSyncHandle,  \* "null", "pending", "resolved" or "aborted"
    \* --- the start call in flight
    loadPc,         \* where the start call is suspended
    isNewLogin,     \* the isNewLogin argument of _loadSessionInfo
    \* --- what happened (read by the properties only)
    thrownInLoad,   \* the error the load met, "none" when it met none
    containerDisposed,   \* dispose() was called
    storages,       \* storages created by storageFactory.create
    sessions,       \* Session objects created
    versionsRequests,    \* /versions requests issued by _loadSessionInfo
    sessionStarts,  \* who called session.start: "reconnector", "load"
    afterDispose,   \* what the container did after dispose() was called
    ignoredStarts,  \* start calls that returned at the status check
    \* --- createStores
    oldVersion,     \* the oldVersion argument, NoVersion when absent
    version,        \* the version argument: schema.length
    migrationPc,    \* "idle", "running" (schema[i] awaited), "done" or "failed"
    migrationIdx,   \* i of the for loop
    migrationsRun   \* the indices of the migrations started, in order

shareVars == << members, outbound, nextSessionId, operations, nextOpId, openTxns, lastSent,
                isFlushingRoomKeyShares, kind, pc, operation, devices, messages, queue, retired,
                shouldFlush, dropped, calls >>

decryptVars == << sessionBackup, disposed, inbound, missingKeyEventIds, phase, source, events,
                  passed, outcome, results, errors, groups, req, requested, found, wrongKey,
                  opened, roomNotified, notifiedMissing, storageAfterDispose, batches,
                  written, lastEnable >>

cacheVars == << megolmSyncCache, megolmBackfillCache, nextCacheId, disposedCaches, handed,
                thrown, senderDeviceCache, queried, lookups, marks, isTrackingMembers >>

clockVars == << now, lastKeyPreShareTime, skipped >>

restoreVars == << restorePc, restoreEntries, restoreGroups, restoreMissing, restoreIssued, failed >>

logVars == << fetches, logged >>

containerVars == << status, loadError, loginFailure, storage, loadedSession, sync, syncStatus,
                    sessionStartedByReconnector, reconnectSubscription,
                    waitForFirstSyncHandle, loadPc, isNewLogin, thrownInLoad,
                    containerDisposed, storages, sessions, versionsRequests, sessionStarts,
                    afterDispose, ignoredStarts >>

schemaVars == << oldVersion, version, migrationPc, migrationIdx, migrationsRun >>

startupVars == << containerVars, schemaVars >>

vars == << shareVars, decryptVars, cacheVars, clockVars, restoreVars, logVars, startupVars >>

\* ----------------------------------------------------------------- helpers

NoPayload == [op |-> 0, type |-> "none", devices |-> {}, roomKeyMessage |-> NoRoomKeyMessage]

DevicesOf(userIds) == { d \in Devices : d.userId \in userIds }

\* Array.from(devices.reduce((set, device) => set.add(device.userId), new Set()))
OwnersOf(ds) == { d.userId : d \in ds }

\* variant of Put: the store is left as it is
PutSkipped(store, op) == store

\* operations.update(operation): a put, keyed by id
Put(store, op) == { o \in store : o.id # op.id } \cup {op}

\* variant of Remove: the store is left as it is
RemoveSkipped(store, id) == store

\* operations.remove(id)
Remove(store, id) == { o \in store : o.id # id }

\* the lowest invocation slot that is free
FreeProc == CHOOSE p \in Procs : kind[p] = "idle" /\ \A q \in Procs : q < p => kind[q] # "idle"
HasFreeProc == \E p \in Procs : kind[p] = "idle"

\* a later transaction on the operations store starts only once an earlier
\* write transaction on it has ended
StoreFree == openTxns = {}

RECURSIVE SortedById(_)
\* getAllByTypeAndScope returns the entries in key order
SortedById(S) ==
    IF S = {} THEN << >>
    ELSE LET m == CHOOSE o \in S : \A x \in S : o.id <= x.id
         IN << m >> \o SortedById(S \ {m})

\* ------------------------------------------------------------------- Init

\* The constructor reads nothing from storage: the stores hold what an earlier run
\* left, an outbound session or none, and a share operation still pending or none.
InitShare ==
    /\ members \in { {"@a"}, {"@a", "@b"} }
    /\ outbound \in { NoSession, [session_id |-> 1] }
    /\ nextSessionId = 2
    /\ operations \in { {}, { [id |-> 1, type |-> "share_room_key", scope |-> RoomId,
                               userIds |-> NullUserIds,
                               roomKeyMessage |-> [session_id |-> 1]] } }
    /\ nextOpId = 2
    /\ openTxns = {}
    /\ lastSent = NoPayload
    /\ isFlushingRoomKeyShares = FALSE
    /\ kind = [p \in Procs |-> "idle"]
    /\ pc = [p \in Procs |-> "idle"]
    /\ operation = [p \in Procs |-> NoOperation]
    /\ devices = [p \in Procs |-> {}]
    /\ messages = [p \in Procs |-> {}]
    /\ queue = [p \in Procs |-> << >>]
    /\ retired = {}
    /\ shouldFlush = "none"
    /\ dropped = 0
    /\ calls = 0

\* constructor: a sessionBackup may be passed in; nothing is disposed; the inbound
\* store holds the sessions received so far
InitDecrypt ==
    /\ sessionBackup \in {0, 1}
    /\ disposed = FALSE
    /\ inbound \in SUBSET SessionKeys
    /\ missingKeyEventIds = {}
    /\ phase = "idle"
    /\ source = "Sync"
    /\ events = {}
    /\ passed = {}
    /\ outcome = << >>
    /\ results = {}
    /\ errors = << >>
    /\ groups = {}
    /\ req = [k \in SessionKeys |-> "none"]
    /\ requested = {}
    /\ found = {}
    /\ wrongKey = {}
    /\ opened = {}
    /\ roomNotified = {}
    /\ notifiedMissing = FALSE
    /\ storageAfterDispose = FALSE
    /\ batches = 0
    /\ written = [k \in SessionKeys |-> "none"]
    /\ lastEnable = 0

\* the clock value standing for this._lastKeyPreShareTime === null
NoTime == 0

\* a log item the catch block of _requestMissingSessionFromBackup did not touch
NotLogged == [cause |-> "none", mark |-> "none"]

\* constructor: the backfill cache and the sync cache are created, the sender
\* device cache is empty, no pre-share check was made
InitRest ==
    /\ megolmBackfillCache = 1
    /\ megolmSyncCache = 2
    /\ nextCacheId = 3
    /\ disposedCaches = {}
    /\ handed = 0
    /\ thrown = ""
    /\ senderDeviceCache = {}
    /\ queried = {}
    /\ lookups = [k \in SenderKeys |-> 0]
    /\ marks = [id \in EventIds |-> "none"]
    /\ isTrackingMembers = FALSE
    /\ now = 1
    /\ lastKeyPreShareTime = NoTime
    /\ skipped = 0
    /\ restorePc = "idle"
    /\ restoreEntries = << >>
    /\ restoreGroups = << >>
    /\ restoreMissing = << >>
    /\ restoreIssued = << >>
    /\ failed = {}
    /\ fetches = [k \in SessionKeys |-> 0]
    /\ logged = [k \in SessionKeys |-> NotLogged]

\* SpecShare starts from one state of the inbound side, SpecDecrypt from one of
\* the outbound side
\* no version given
NoVersion == -1

\* constructor of SessionContainer; createStores has not been called
InitStartup ==
    /\ status = "NotLoading"
    /\ loadError = "null"
    /\ loginFailure = "null"
    /\ storage = "null"
    /\ loadedSession = "null"
    /\ sync = "null"
    /\ syncStatus = "Stopped"
    /\ sessionStartedByReconnector = FALSE
    /\ reconnectSubscription = FALSE
    /\ waitForFirstSyncHandle = "null"
    /\ loadPc = "idle"
    /\ isNewLogin = FALSE
    /\ thrownInLoad = "none"
    /\ containerDisposed = FALSE
    /\ storages = 0
    /\ sessions = 0
    /\ versionsRequests = 0
    /\ sessionStarts = << >>
    /\ afterDispose = {}
    /\ ignoredStarts = 0
    /\ oldVersion = NoVersion
    /\ version = 0
    /\ migrationPc = "idle"
    /\ migrationIdx = 0
    /\ migrationsRun = << >>

Init ==
    /\ InitShare
    /\ InitDecrypt
    /\ InitRest
    /\ InitStartup

\* one more call of the room's API
Call == calls < MaxCalls /\ calls' = calls + 1

\* ------------------------------------------------- the megolm encryption engine

\* megolmEncryption.encrypt: creates a session, with a fresh id, when there is none
\* or the current one has to be rotated, and only then hands back a roomKeyMessage
MegolmEncrypt(rotate) ==
    LET fresh == outbound = NoSession \/ rotate
        session == IF fresh THEN [session_id |-> nextSessionId] ELSE outbound
    IN [ fresh |-> fresh,
         session_id |-> session.session_id,
         roomKeyMessage |-> IF fresh THEN session ELSE NoRoomKeyMessage,
         next |-> session ]

\* megolmEncryption.createRoomKeyMessage: the key of the stored session, nothing
\* when no session is stored
CreateRoomKeyMessage(session) ==
    IF session = NoSession THEN NoRoomKeyMessage ELSE session

\* ------------------------------------------------------------- RoomEncryption

writeRoomKeyShareOperation(roomKeyMessage, userIds) ==
    [id |-> nextOpId, type |-> "share_room_key", scope |-> RoomId,
     userIds |-> userIds, roomKeyMessage |-> roomKeyMessage]

\* encrypt(type, content, hsApi, log): the detached share task is started when
\* the engine hands back a roomKeyMessage
encrypt ==
    \E rotate \in BOOLEAN :
        LET r == MegolmEncrypt(rotate) IN
        /\ Call
        /\ outbound' = r.next
        /\ IF r.fresh
           THEN /\ HasFreeProc
                /\ nextSessionId' = nextSessionId + 1
                /\ kind' = [kind EXCEPT ![FreeProc] = "share"]
                /\ pc' = [pc EXCEPT ![FreeProc] = "write"]
                /\ operation' = [operation EXCEPT ![FreeProc] =
                                    [NoOperation EXCEPT !.roomKeyMessage = r.roomKeyMessage]]
           ELSE UNCHANGED << nextSessionId, kind, pc, operation >>
        /\ UNCHANGED << members, operations, nextOpId, openTxns, lastSent,
                        isFlushingRoomKeyShares, devices, messages, queue, retired,
                        shouldFlush, dropped, decryptVars, cacheVars, clockVars, restoreVars,
                        logVars, startupVars >>

\* _shareNewRoomKey up to its call of _processShareRoomKeyOperation: the write
\* transaction is opened and the operation added to it; nothing completes the
\* transaction. A throwing add aborts the transaction and is rethrown.
shareNewRoomKey(p) ==
    /\ kind[p] \in {"share", "preshare"} /\ pc[p] = "write"
    /\ StoreFree
    /\ \E addThrows \in BOOLEAN :
        IF addThrows
        THEN /\ kind' = [kind EXCEPT ![p] = "idle"]
             /\ pc' = [pc EXCEPT ![p] = "idle"]
             /\ operation' = [operation EXCEPT ![p] = NoOperation]
             /\ UNCHANGED << nextOpId, openTxns >>
        ELSE LET op == writeRoomKeyShareOperation(operation[p].roomKeyMessage, NullUserIds) IN
             /\ nextOpId' = nextOpId + 1
             /\ openTxns' = openTxns \cup {op}
             /\ operation' = [operation EXCEPT ![p] = op]
             /\ pc' = [pc EXCEPT ![p] = "devices"]
             /\ UNCHANGED kind
    /\ UNCHANGED << members, outbound, nextSessionId, operations, lastSent, isFlushingRoomKeyShares,
                    devices, messages, queue, retired, shouldFlush, dropped, calls,
                    decryptVars, cacheVars, clockVars, restoreVars, logVars, startupVars >>

\* The storage layer ends a write transaction that was left open: it commits ...
commitOpenTxn ==
    /\ \E op \in openTxns :
        /\ operations' = operations \cup {op}
        /\ openTxns' = openTxns \ {op}
    /\ UNCHANGED << members, outbound, nextSessionId, nextOpId, lastSent, isFlushingRoomKeyShares,
                    kind, pc, operation, devices, messages, queue, retired, shouldFlush, dropped,
                    calls, decryptVars, cacheVars, clockVars, restoreVars, logVars, startupVars >>

\* ... or it does not (the commit fails, or the transaction is dropped with the page)
dropOpenTxn ==
    /\ \E op \in openTxns :
        /\ openTxns' = openTxns \ {op}
    /\ UNCHANGED << members, outbound, nextSessionId, operations, nextOpId, lastSent,
                    isFlushingRoomKeyShares, kind, pc, operation, devices, messages, queue, retired,
                    shouldFlush, dropped, calls, decryptVars, cacheVars, clockVars,
                    restoreVars, logVars, startupVars >>

\* ---------------------------------------------- _processShareRoomKeyOperation

passFrame == << members, outbound, nextSessionId, nextOpId, openTxns, retired, shouldFlush,
                dropped, calls, decryptVars, cacheVars, clockVars, restoreVars, logVars,
                startupVars >>

\* trackRoom and the device lookup: of the tracked room when userIds is null, and
\* then the operation gets the owners of these devices as userIds; of the listed
\* users otherwise
resolveDevices(p) ==
    /\ pc[p] = "devices"
    /\ IF operation[p].userIds = NullUserIds
       THEN LET ds == DevicesOf(members) IN
            /\ devices' = [devices EXCEPT ![p] = ds]
            /\ operation' = [operation EXCEPT ![p].userIds = OwnersOf(ds)]
            /\ pc' = [pc EXCEPT ![p] = "update"]
       ELSE /\ devices' = [devices EXCEPT ![p] = DevicesOf(operation[p].userIds)]
            /\ pc' = [pc EXCEPT ![p] = "encrypt"]
            /\ UNCHANGED operation
    /\ UNCHANGED << passFrame, operations, lastSent, isFlushingRoomKeyShares, kind, messages,
                    queue >>

\* await this._updateOperationsStore(operations => operations.update(operation))
updateResolved(p) ==
    /\ pc[p] = "update"
    /\ StoreFree
    /\ operations' = Put(operations, operation[p])
    /\ pc' = [pc EXCEPT ![p] = "encrypt"]
    /\ UNCHANGED << passFrame, lastSent, isFlushingRoomKeyShares, kind, operation, devices,
                    messages, queue >>

\* olmEncryption.encrypt yields a message for some of the devices
olmEncrypt(p) ==
    /\ pc[p] = "encrypt"
    /\ \E ms \in SUBSET devices[p] : messages' = [messages EXCEPT ![p] = ms]
    /\ pc' = [pc EXCEPT ![p] = "send"]
    /\ UNCHANGED << passFrame, operations, lastSent, isFlushingRoomKeyShares, kind, operation,
                    devices, queue >>

MissingDevices(p) == devices[p] \ messages[p]

\* the payload of one hsApi.sendToDevice call: what is sent, and to which devices
ToDevice(p, type, ds) ==
    [op |-> operation[p].id, type |-> type, devices |-> ds,
     roomKeyMessage |-> operation[p].roomKeyMessage]

\* _sendMessagesToDevices(ENCRYPTED_TYPE, messages, hsApi, log)
sendMessagesToDevices(p) ==
    /\ pc[p] = "send"
    /\ lastSent' = ToDevice(p, ENCRYPTED_TYPE, messages[p])
    /\ pc' = [pc EXCEPT ![p] = IF MissingDevices(p) # {} THEN "narrow" ELSE "remove"]
    /\ UNCHANGED << passFrame, operations, isFlushingRoomKeyShares, kind, operation, devices,
                    messages, queue >>

\* variant of UnsentUserIds: the userIds are kept as they are
UnsentUserIdsUnfiltered(p) == operation[p].userIds

\* operation.userIds.filter(userId => missingDevices.some(d => d.userId === userId))
UnsentUserIds(p) ==
    { u \in operation[p].userIds : \E d \in MissingDevices(p) : d.userId = u }

\* the operation is narrowed to the users with a missing device and updated
narrowOperation(p) ==
    /\ pc[p] = "narrow"
    /\ StoreFree
    /\ operation' = [operation EXCEPT ![p].userIds = UnsentUserIds(p)]
    /\ operations' = Put(operations, operation'[p])
    /\ pc' = [pc EXCEPT ![p] = "withheld"]
    /\ UNCHANGED << passFrame, lastSent, isFlushingRoomKeyShares, kind, devices, messages, queue >>

\* _sendSharedMessageToDevices("org.matrix.room_key.withheld", ..., missingDevices, ...)
sendSharedMessageToDevices(p) ==
    /\ pc[p] = "withheld"
    /\ lastSent' = ToDevice(p, WITHHELD_TYPE, MissingDevices(p))
    /\ pc' = [pc EXCEPT ![p] = "remove"]
    /\ UNCHANGED << passFrame, operations, isFlushingRoomKeyShares, kind, operation, devices,
                    messages, queue >>

\* variant of Finally: the flag is left as it is
FinallySkipped(p) == isFlushingRoomKeyShares

\* finally { this._isFlushingRoomKeyShares = false; } of the flush in slot p
Finally(p) == IF kind[p] = "flush" THEN FALSE ELSE isFlushingRoomKeyShares

\* the invocation in slot p returns or throws: the slot is free again; a flush
\* leaves through its finally block
Leave(p) ==
    /\ kind' = [kind EXCEPT ![p] = "idle"]
    /\ pc' = [pc EXCEPT ![p] = "idle"]
    /\ operation' = [operation EXCEPT ![p] = NoOperation]
    /\ devices' = [devices EXCEPT ![p] = {}]
    /\ messages' = [messages EXCEPT ![p] = {}]
    /\ queue' = [queue EXCEPT ![p] = << >>]
    /\ isFlushingRoomKeyShares' = Finally(p)

\* entries the operations store holds besides those of `operations`: one of
\* another type for this room, and a share_room_key operation of another room
ForeignOperations ==
    { [id |-> 90, type |-> "other", scope |-> RoomId,
       userIds |-> NullUserIds, roomKeyMessage |-> NoRoomKeyMessage],
      [id |-> 91, type |-> "share_room_key", scope |-> "!other",
       userIds |-> NullUserIds, roomKeyMessage |-> [session_id |-> 1]] }

\* variant of SkipOthers: no entry is skipped
SkipNone(q) == q

RECURSIVE SkipOthers(_)
\* if (operation.type !== "share_room_key") { continue; }
SkipOthers(q) ==
    IF q = << >> THEN q
    ELSE IF Head(q).type # "share_room_key" THEN SkipOthers(Tail(q)) ELSE q

\* the for loop of flushPendingRoomKeyShares over the operations q, run by slot p
\* up to the first await of _processShareRoomKeyOperation
ProcessNext(p, q) ==
    LET r == SkipOthers(q) IN
    IF r = << >>
    THEN Leave(p)
    ELSE /\ kind' = [kind EXCEPT ![p] = "flush"]
         /\ pc' = [pc EXCEPT ![p] = "devices"]
         /\ operation' = [operation EXCEPT ![p] = Head(r)]
         /\ devices' = [devices EXCEPT ![p] = {}]
         /\ messages' = [messages EXCEPT ![p] = {}]
         /\ queue' = [queue EXCEPT ![p] = Tail(r)]
         /\ isFlushingRoomKeyShares' = TRUE

\* await this._updateOperationsStore(operations => operations.remove(operation.id)),
\* after which _shareNewRoomKey returns and a flush goes on with its next operation
removeOperation(p) ==
    /\ pc[p] = "remove"
    /\ StoreFree
    /\ operations' = Remove(operations, operation[p].id)
    /\ IF kind[p] = "flush" THEN ProcessNext(p, queue[p]) ELSE Leave(p)
    /\ UNCHANGED << passFrame, lastSent >>

\* an await of the invocation in slot p rejects (network or storage failure)
throw(p) ==
    /\ pc[p] \in {"load", "devices", "update", "encrypt", "send", "narrow",
                  "withheld", "remove"}
    /\ Leave(p)
    /\ UNCHANGED << passFrame, operations, lastSent >>

\* --------------------------------------------------- flushPendingRoomKeyShares

\* the operations argument: what the caller read from the store for this room
GivenOperations == SortedById({ o \in operations \cup ForeignOperations : o.scope = RoomId })

\* variant of FlushGuard: the flag is not looked at
FlushGuardOff == FALSE

\* if (this._isFlushingRoomKeyShares) { return; }
FlushGuard == isFlushingRoomKeyShares

\* flushPendingRoomKeyShares(hsApi, operations, log) up to its first await; given:
\* the caller passes the operations it read from the store
flushPendingRoomKeyShares(given) ==
    /\ Call
    /\ IF FlushGuard
       THEN /\ dropped' = dropped + 1
            /\ UNCHANGED << isFlushingRoomKeyShares, kind, pc, operation, devices, messages,
                            queue >>
       ELSE /\ HasFreeProc
            /\ UNCHANGED dropped
            /\ IF given
               THEN /\ StoreFree
                    /\ ProcessNext(FreeProc, GivenOperations)
               ELSE /\ kind' = [kind EXCEPT ![FreeProc] = "flush"]
                    /\ pc' = [pc EXCEPT ![FreeProc] = "load"]
                    /\ isFlushingRoomKeyShares' = TRUE
                    /\ UNCHANGED << operation, devices, messages, queue >>
    /\ UNCHANGED << members, outbound, nextSessionId, operations, nextOpId, openTxns,
                    lastSent, retired, shouldFlush, decryptVars, cacheVars, clockVars,
                    restoreVars, logVars, startupVars >>

\* txn.operations.getAllByTypeAndScope("share_room_key", this._room.id)
getAllByTypeAndScope(type, scope) ==
    SortedById({ o \in operations \cup ForeignOperations : o.type = type /\ o.scope = scope })

\* the read of the operations store returns and the loop starts
flushLoad(p) ==
    /\ kind[p] = "flush" /\ pc[p] = "load"
    /\ StoreFree
    /\ ProcessNext(p, getAllByTypeAndScope("share_room_key", RoomId))
    /\ UNCHANGED << passFrame, operations, lastSent >>

\* ---------------------------------------------------------- writeMemberChanges

\* a batch of member changes the room can get: a user who is not a member joins,
\* a member leaves, or the member event changes neither
MemberChangeBatches ==
    { mc \in SUBSET [userId : Users, hasJoined : BOOLEAN, hasLeft : BOOLEAN] :
        /\ mc # {}
        /\ \A m \in mc : /\ ~(m.hasJoined /\ m.hasLeft)
                         /\ m.hasJoined => m.userId \notin members
                         /\ m.hasLeft => m.userId \in members
        /\ \A m1, m2 \in mc : m1.userId = m2.userId => m1 = m2 }

\* variant of SomeLeft: a departure is not seen
SomeLeftUnseen(mc) == FALSE

\* memberChangesArray.some(m => m.hasLeft)
SomeLeft(mc) == \E m \in mc : m.hasLeft

\* memberChangesArray.some(m => m.hasJoined)
SomeJoined(mc) == \E m \in mc : m.hasJoined

\* variant of JoinedUserIds: without the filter on hasJoined
JoinedUserIdsUnfiltered(mc) == { m.userId : m \in mc }

\* memberChangesArray.filter(m => m.hasJoined).map(m => m.userId)
JoinedUserIds(mc) == { m.userId : m \in { x \in mc : x.hasJoined } }

\* deviceTracker.writeMemberChanges: who joined is tracked, who left no longer is
TrackerWriteMemberChanges(mc) ==
    (members \cup { m.userId : m \in { x \in mc : x.hasJoined } })
        \ { m.userId : m \in { x \in mc : x.hasLeft } }

\* writeMemberChanges(memberChanges, txn, log), with the commit of the caller's txn
writeMemberChanges(mc) ==
    LET discarded == IF SomeLeft(mc) THEN NoSession ELSE outbound
        roomKeyMessage == CreateRoomKeyMessage(discarded)
        adds == SomeJoined(mc) /\ roomKeyMessage # NoRoomKeyMessage
        op == writeRoomKeyShareOperation(roomKeyMessage, JoinedUserIds(mc))
    IN
    /\ Call
    /\ StoreFree
    /\ outbound' = discarded
    /\ IF adds
       THEN /\ nextOpId' = nextOpId + 1
            /\ operations' = operations \cup {op}
       ELSE UNCHANGED << nextOpId, operations >>
    /\ members' = TrackerWriteMemberChanges(mc)
    /\ retired' = IF (\E m \in mc : m.hasLeft) /\ outbound # NoSession
                  THEN retired \cup {outbound.session_id} ELSE retired
    /\ shouldFlush' = IF ~SomeJoined(mc) THEN "undefined"
                      ELSE IF adds THEN "true" ELSE "false"
    /\ UNCHANGED << nextSessionId, openTxns, lastSent, isFlushingRoomKeyShares, kind, pc,
                    operation, devices, messages, queue, dropped, decryptVars, cacheVars,
                    clockVars, restoreVars, logVars, startupVars >>

\* ------------------------------------------------------------------- SpecShare

NextShare ==
    \/ encrypt
    \/ \E mc \in MemberChangeBatches : writeMemberChanges(mc)
    \/ \E given \in BOOLEAN : flushPendingRoomKeyShares(given)
    \/ commitOpenTxn
    \/ dropOpenTxn
    \/ \E p \in Procs :
        \/ shareNewRoomKey(p)
        \/ flushLoad(p)
        \/ resolveDevices(p)
        \/ updateResolved(p)
        \/ olmEncrypt(p)
        \/ sendMessagesToDevices(p)
        \/ narrowOperation(p)
        \/ sendSharedMessageToDevices(p)
        \/ removeOperation(p)
        \/ throw(p)

\* ---------------------------------------------------- ensureMessageKeyIsShared

\* how often ensureMessageKeyIsShared can check, in ms
MIN_PRESHARE_INTERVAL == 60000

\* variant of WithinInterval: the time of the last check is not looked at
WithinIntervalNever == FALSE

\* this._lastKeyPreShareTime?.measure() < MIN_PRESHARE_INTERVAL
WithinInterval ==
    /\ lastKeyPreShareTime # NoTime
    /\ now - lastKeyPreShareTime < MIN_PRESHARE_INTERVAL

\* megolmEncryption.ensureOutboundSession: creates a session, with a fresh id, when
\* there is none or the current one has to be rotated, and only then hands back a
\* roomKeyMessage
EnsureOutboundSession(rotate) ==
    LET fresh == outbound = NoSession \/ rotate
        session == IF fresh THEN [session_id |-> nextSessionId] ELSE outbound
    IN [ roomKeyMessage |-> IF fresh THEN session ELSE NoRoomKeyMessage,
         next |-> session ]

\* ensureMessageKeyIsShared(hsApi, log) up to the first await of _shareNewRoomKey;
\* engineThrows: ensureOutboundSession rejects
ensureMessageKeyIsShared(rotate, engineThrows) ==
    LET r == EnsureOutboundSession(rotate) IN
    /\ Call
    /\ IF WithinInterval
       THEN /\ skipped' = skipped + 1
            /\ UNCHANGED << lastKeyPreShareTime, outbound, nextSessionId, kind, pc, operation >>
       ELSE /\ lastKeyPreShareTime' = now
            /\ UNCHANGED skipped
            /\ IF engineThrows
               THEN UNCHANGED << outbound, nextSessionId, kind, pc, operation >>
               ELSE /\ outbound' = r.next
                    /\ IF r.roomKeyMessage # NoRoomKeyMessage
                       THEN /\ HasFreeProc
                            /\ nextSessionId' = nextSessionId + 1
                            /\ kind' = [kind EXCEPT ![FreeProc] = "preshare"]
                            /\ pc' = [pc EXCEPT ![FreeProc] = "write"]
                            /\ operation' = [operation EXCEPT ![FreeProc] =
                                  [NoOperation EXCEPT !.roomKeyMessage = r.roomKeyMessage]]
                       ELSE UNCHANGED << nextSessionId, kind, pc, operation >>
    /\ UNCHANGED << members, operations, nextOpId, openTxns, lastSent,
                    isFlushingRoomKeyShares, devices, messages, queue, retired,
                    shouldFlush, dropped, now, decryptVars, cacheVars, restoreVars, logVars,
                    startupVars >>

\* time passes
tick ==
    /\ now + Tick <= MaxTime
    /\ now' = now + Tick
    /\ UNCHANGED << shareVars, decryptVars, cacheVars, restoreVars, logVars, startupVars,
                    lastKeyPreShareTime,
                    skipped >>

NextPreShare ==
    \/ \E rotate, engineThrows \in BOOLEAN : ensureMessageKeyIsShared(rotate, engineThrows)
    \/ tick
    \/ commitOpenTxn
    \/ dropOpenTxn
    \/ \E p \in Procs :
        \/ shareNewRoomKey(p)
        \/ resolveDevices(p)
        \/ updateResolved(p)
        \/ olmEncrypt(p)
        \/ sendMessagesToDevices(p)
        \/ narrowOperation(p)
        \/ sendSharedMessageToDevices(p)
        \/ removeOperation(p)
        \/ throw(p)

\* the outbound side, with the inbound side at rest
InitShareOnly ==
    /\ Init
    /\ sessionBackup = 0
    /\ inbound = {}

SpecShare == InitShareOnly /\ [][NextShare]_vars

\* the pre-share of the message key, without pending operations
InitPreShareOnly ==
    /\ InitShareOnly
    /\ operations = {}

SpecPreShare == InitPreShareOnly /\ [][NextPreShare]_vars

\* --------------------------------------------- RoomEncryption, the inbound side

NO_SESSION == "MEGOLM_NO_SESSION"
DECRYPTION_ERROR == "MEGOLM_DECRYPTION_ERROR"
UNSUPPORTED == "Unsupported algorithm"

KeyOf(e) == SessionKey(e.sender_key, e.session_id)

Ids(evs) == { e.event_id : e \in evs }

\* the batches prepareDecryptAll is called with
Batches == { evs \in SUBSET Events : evs # {} /\ Cardinality(evs) <= MaxBatchSize }

\* event.redacted_because || event.unsigned?.redacted_because
IsRedacted(e) == e.redacted

\* the errors map of prepareDecryptAll: the ids it sets "Unsupported algorithm" for
ExtraErrors(evs) ==
    Ids({ e \in evs : ~IsRedacted(e) /\ e.algorithm # MEGOLM_ALGORITHM })

\* validEvents of prepareDecryptAll: every event the loop does not `continue` on
ValidEvents(evs) == { e \in evs : ~IsRedacted(e) }

\* megolmDecryption.prepareDecryptAll(...).decrypt().write(): each event handed to
\* the engine ends in its results, or in its errors with MEGOLM_NO_SESSION when
\* its session is not stored and with a decryption error otherwise
EngineOutcomes(evs) ==
    { f \in [Ids(evs) -> {"ok", NO_SESSION, DECRYPTION_ERROR}] :
        \A e \in evs : (f[e.event_id] = NO_SESSION) <=> (KeyOf(e) \notin inbound) }

\* mergeMap(this._extraErrors, errors): the entries of the first are set on the second
MergeMap(extra, engineErrors) ==
    [ id \in extra \cup DOMAIN engineErrors |->
        IF id \in extra THEN UNSUPPORTED ELSE engineErrors[id] ]

\* groupEventsBySession: the keys of the groups
GroupEventsBySession(evs) == { KeyOf(e) : e \in evs }

\* variant of StoresMissingKeyEventIds: whatever the source
StoresMissingKeyEventIdsAlways(src) == TRUE

\* if (source === DecryptionSource.Sync), around addMissingKeyEventIds
StoresMissingKeyEventIds(src) == src = "Sync"

\* variant of WaitsForKey: no source waits
WaitsForKeyNever(src) == FALSE

\* source === DecryptionSource.Sync
WaitsForKey(src) == src = "Sync"

\* variant of SenderKeyMatches: the sender key is not compared
SenderKeyUnchecked(session, senderKey) == TRUE

\* session["sender_key"] !== senderKey, negated
SenderKeyMatches(session, senderKey) == session.sender_key = senderKey

\* no batch is in the pipeline and no detached task of one is running
AtRest == phase \in {"idle", "returned", "finished", "aborted", "failed"}

\* DecryptionChanges.write has returned its BatchDecryptionResult
Written == phase \notin {"idle", "prepared"}

\* variant of SessionCacheFor: every source gets the sync cache
SessionCacheForSyncOnly(src) == megolmSyncCache

\* sessionCache of prepareDecryptAll: the sync cache, the backfill cache, or for
\* Retry the cache createSessionCache() makes for this call
SessionCacheFor(src) ==
    IF src = "Sync" THEN megolmSyncCache
    ELSE IF src = "Timeline" THEN megolmBackfillCache
    ELSE nextCacheId

\* prepareDecryptAll(events, newKeys, source, txn); engineThrows: the engine's
\* prepareDecryptAll rejects
prepareDecryptAll(evs, src, engineThrows) ==
    LET unknown == src \notin Sources
        customCache == src = "Retry"
        returns == ~unknown /\ ~engineThrows
    IN
    /\ ~disposed
    /\ AtRest
    /\ batches < MaxBatches
    /\ customCache => nextCacheId <= MaxCaches
    /\ batches' = batches + 1
    /\ events' = evs
    /\ source' = src
    /\ thrown' = IF unknown THEN "Unknown source" ELSE IF engineThrows THEN "engine" ELSE ""
    /\ handed' = IF unknown THEN 0 ELSE SessionCacheFor(src)
    /\ nextCacheId' = IF customCache THEN nextCacheId + 1 ELSE nextCacheId
    /\ disposedCaches' = IF customCache /\ returns
                         THEN disposedCaches \cup {nextCacheId} ELSE disposedCaches
    /\ passed' = IF unknown THEN {} ELSE ValidEvents(evs)
    /\ IF returns THEN outcome' \in EngineOutcomes(passed') ELSE outcome' = << >>
    /\ phase' = IF returns THEN "prepared" ELSE "idle"
    /\ results' = {}
    /\ errors' = << >>
    /\ groups' = {}
    /\ req' = [k \in SessionKeys |-> "none"]
    /\ requested' = {}
    /\ found' = {}
    /\ wrongKey' = {}
    /\ opened' = {}
    /\ roomNotified' = {}
    /\ notifiedMissing' = FALSE
    /\ written' = [k \in SessionKeys |-> "none"]
    /\ fetches' = [k \in SessionKeys |-> 0]
    /\ logged' = [k \in SessionKeys |-> NotLogged]
    /\ marks' = [id \in EventIds |-> "none"]
    /\ UNCHANGED << shareVars, startupVars, clockVars, restoreVars, lastEnable, sessionBackup,
                    disposed,
                    inbound, missingKeyEventIds, storageAfterDispose, megolmSyncCache,
                    megolmBackfillCache, senderDeviceCache, queried, lookups,
                    isTrackingMembers >>

\* variant of CallsFor: one call for every event of the batch that has the key
CallsForEachEvent(k, ks) ==
    IF k \in ks THEN Cardinality({ e \in events : KeyOf(e) = k }) ELSE 0

\* Array.from(missingEventsBySession.values()).map(group => ...): the calls of
\* _requestMissingSessionFromBackup made for the key k, ks being the keys of the map
CallsFor(k, ks) == IF k \in ks THEN 1 ELSE 0

\* the phase once the requests of the keys ks are under way, r being req'
AfterRequests(r) ==
    IF \A k \in SessionKeys : r[k] \in {"none", "done"} THEN "finished" ELSE "requesting"

\* _requestMissingSessionFromBackup(senderKey, sessionId, log) up to its first
\* await, for each of the keys ks
requestMissingSessionFromBackup(ks) ==
    IF sessionBackup = 0
    THEN /\ notifiedMissing' = (notifiedMissing \/ ks # {})
         /\ UNCHANGED << req, requested, fetches >>
    ELSE /\ req' = [k \in SessionKeys |-> IF k \in ks THEN "fetching" ELSE req[k]]
         /\ requested' = requested \cup ks
         /\ fetches' = [k \in SessionKeys |-> fetches[k] + CallsFor(k, ks)]
         /\ UNCHANGED notifiedMissing

\* DecryptionPreparation.decrypt, DecryptionChanges.write and with it
\* _processDecryptionResults up to the first await of its detached task
write ==
    LET engineErrors == [ id \in { i \in DOMAIN outcome : outcome[i] # "ok" } |-> outcome[id] ]
        merged == MergeMap(ExtraErrors(events), engineErrors)
        missingSessionEvents ==
            { e \in events : e.event_id \in DOMAIN merged /\ merged[e.event_id] = NO_SESSION }
        missingEventsBySession == GroupEventsBySession(missingSessionEvents)
    IN
    /\ phase = "prepared"
    /\ results' = { i \in DOMAIN outcome : outcome[i] = "ok" }
    /\ errors' = merged
    /\ IF missingSessionEvents = {}
       THEN /\ phase' = "returned"
            /\ UNCHANGED << groups, missingKeyEventIds, req, requested, notifiedMissing,
                            fetches >>
       ELSE /\ groups' = missingEventsBySession
            /\ missingKeyEventIds' =
                  IF StoresMissingKeyEventIds(source)
                  THEN missingKeyEventIds
                        \cup { << KeyOf(e), e.event_id >> : e \in missingSessionEvents }
                  ELSE missingKeyEventIds
            /\ IF sessionBackup = 0
               THEN /\ phase' = "returned"
                    /\ UNCHANGED << req, requested, notifiedMissing, fetches >>
               ELSE IF WaitsForKey(source)
                    THEN /\ phase' = "timeout"
                         /\ UNCHANGED << req, requested, notifiedMissing, fetches >>
                    ELSE /\ requestMissingSessionFromBackup(missingEventsBySession)
                         /\ phase' = AfterRequests(req')
    /\ UNCHANGED << shareVars, startupVars, cacheVars, clockVars, restoreVars, logged, written,
                    lastEnable,
                    sessionBackup, disposed, inbound, source, events, passed,
                    outcome, found, wrongKey, opened, roomNotified, storageAfterDispose,
                    batches >>

\* this._clock.createTimeout(10000).elapsed() resolves: the task returns when the
\* room encryption is disposed, and opens a read txn otherwise
timeoutElapsed ==
    /\ phase = "timeout"
    /\ phase' = IF disposed THEN "aborted" ELSE "check"
    /\ UNCHANGED << shareVars, cacheVars, clockVars, restoreVars, logVars, startupVars,
                    written, lastEnable,
                    sessionBackup, disposed, inbound, missingKeyEventIds, source,
                    events, passed, outcome, results, errors, groups, req, requested, found,
                    wrongKey, opened, roomNotified, notifiedMissing, storageAfterDispose,
                    batches >>

\* the hasSession reads resolve: the groups whose session is stored are deleted
\* from missingEventsBySession, the others are requested from the backup; or the
\* read rejects and the task ends with it
hasSession ==
    /\ phase = "check"
    /\ \E rejects \in BOOLEAN :
        IF rejects
        THEN /\ phase' = "failed"
             /\ UNCHANGED << found, groups, req, requested, notifiedMissing, fetches >>
        ELSE /\ found' = groups \cap inbound
             /\ groups' = groups \ inbound
             /\ requestMissingSessionFromBackup(groups')
             /\ phase' = AfterRequests(req')
    /\ UNCHANGED << shareVars, startupVars, cacheVars, clockVars, restoreVars, logged, written,
                    lastEnable,
                    sessionBackup, disposed, inbound, missingKeyEventIds, source,
                    events, passed, outcome, results, errors, wrongKey, opened, roomNotified,
                    storageAfterDispose, batches >>

\* if (!(err.name === "HomeServerError" && err.errcode === "M_NOT_FOUND")): what
\* the catch block puts on the log item for an error of the given cause
CatchMark(cause) == IF ~(cause = "M_NOT_FOUND") THEN "not_found" ELSE "error"

\* the log item after the catch block met an error of the given cause
Caught(cause) == [cause |-> cause, mark |-> CatchMark(cause)]

\* this._sessionBackup.getSession(...) settles with the answer a for the key k,
\* and _requestMissingSessionFromBackup runs on to its readWriteTxn
getSession(k, a) ==
    /\ req[k] = "fetching"
    /\ \E roomKey \in BOOLEAN :
        LET imports == /\ a.kind = "session"
                       /\ a.algorithm = MEGOLM_ALGORITHM
                       /\ SenderKeyMatches(a, k.senderKey)
                       /\ roomKey
        IN
        /\ req' = [req EXCEPT ![k] = IF imports THEN "write" ELSE "done"]
        /\ opened' = IF imports THEN opened \cup {k} ELSE opened
        /\ storageAfterDispose' = (storageAfterDispose \/ (imports /\ disposed))
    /\ wrongKey' = IF /\ a.kind = "session"
                      /\ a.algorithm = MEGOLM_ALGORITHM
                      /\ a.sender_key # k.senderKey
                   THEN wrongKey \cup {k} ELSE wrongKey
    /\ failed' = IF /\ restorePc = "requesting"
                    /\ \/ a.kind \in {"M_NOT_FOUND", "error"}
                       \/ a.kind = "session" /\ a.algorithm # MEGOLM_ALGORITHM
                       \/ a.kind = "session" /\ a.sender_key # k.senderKey
                 THEN failed \cup {k} ELSE failed
    /\ logged' = IF a.kind \in {"M_NOT_FOUND", "error"}
                 THEN [logged EXCEPT ![k] = Caught(IF a.kind = "error" THEN "other" ELSE a.kind)]
                 ELSE logged
    /\ phase' = IF phase = "requesting" THEN AfterRequests(req') ELSE phase
    /\ UNCHANGED << shareVars, startupVars, cacheVars, clockVars, written, lastEnable,
                    sessionBackup,
                    disposed, inbound, missingKeyEventIds, source, events, passed, outcome,
                    results, errors, groups, requested, found, roomNotified,
                    notifiedMissing, batches, restorePc, restoreEntries, restoreGroups,
                    restoreMissing, restoreIssued, fetches >>

\* variant of NotifiesRoom: whether the key is the best one is not looked at
NotifiesRoomAlways(r) == r \in {"best", "known"}

\* if (keyIsBestOne), reached when writeRoomKey did not throw and txn.complete()
\* resolved
NotifiesRoom(r) == r = "best"

\* how writeRoomKey and the txn it writes in can end: the key is the best one for
\* its session, a better one is known, writeRoomKey throws, or the key is the best
\* one and txn.complete() rejects
WriteOutcomes == {"best", "known", "throws", "commitFails"}

\* megolmDecryption.writeRoomKey(roomKey, txn) settles for the key k: it throws and
\* the txn is aborted, or the txn completes and room.notifyRoomKey is called when
\* the key is the best one
writeRoomKey(k, r) ==
    /\ req[k] = "write"
    /\ r = "known" => k \in inbound
    /\ inbound' = IF r \in {"throws", "commitFails"} THEN inbound ELSE inbound \cup {k}
    /\ roomNotified' = IF NotifiesRoom(r) THEN roomNotified \cup {k} ELSE roomNotified
    /\ written' = [written EXCEPT ![k] = r]
    /\ storageAfterDispose' = (storageAfterDispose \/ disposed)
    /\ req' = [req EXCEPT ![k] = "done"]
    /\ \E notifyThrows \in BOOLEAN :
          LET throws == \/ r \in {"throws", "commitFails"}
                        \/ NotifiesRoom(r) /\ notifyThrows
          IN
          /\ failed' = IF restorePc = "requesting" /\ throws
                       THEN failed \cup {k} ELSE failed
          /\ logged' = IF throws THEN [logged EXCEPT ![k] = Caught("other")] ELSE logged
    /\ phase' = IF phase = "requesting" THEN AfterRequests(req') ELSE phase
    /\ UNCHANGED << shareVars, startupVars, cacheVars, clockVars, lastEnable, sessionBackup,
                    disposed,
                    missingKeyEventIds, source, events, passed, outcome, results, errors,
                    groups, requested, found, wrongKey, opened, notifiedMissing, batches,
                    restorePc, restoreEntries, restoreGroups, restoreMissing,
                    restoreIssued, fetches >>

\* a room key sent by another device is written to inboundGroupSessions
roomKeyArrives(k) ==
    /\ k \notin inbound
    /\ inbound' = inbound \cup {k}
    /\ UNCHANGED << shareVars, cacheVars, clockVars, restoreVars, logVars, startupVars,
                    written, lastEnable,
                    sessionBackup, disposed, missingKeyEventIds, phase, source,
                    events, passed, outcome, results, errors, groups, req, requested, found,
                    wrongKey, opened, roomNotified, notifiedMissing, storageAfterDispose,
                    batches >>

\* variant of HasSessionBackup: the client that is set is not looked at
HasSessionBackupNever == FALSE

\* if (this._sessionBackup)
HasSessionBackup == sessionBackup # 0

\* enableSessionBackup(sessionBackup)
enableSessionBackup(b) ==
    /\ ~disposed
    /\ sessionBackup' = IF HasSessionBackup THEN sessionBackup ELSE b
    /\ lastEnable' = b
    /\ UNCHANGED << shareVars, cacheVars, clockVars, restoreVars, logVars, startupVars,
                    written, disposed,
                    inbound,
                    missingKeyEventIds, phase, source, events,
                    passed, outcome, results, errors, groups, req, requested, found, wrongKey,
                    opened, roomNotified, notifiedMissing, storageAfterDispose, batches >>

\* dispose()
dispose ==
    /\ disposed' = TRUE
    /\ disposedCaches' = disposedCaches \cup {megolmBackfillCache, megolmSyncCache}
    /\ UNCHANGED << shareVars, clockVars, restoreVars, logVars, startupVars, written,
                    lastEnable, sessionBackup,
                    inbound, missingKeyEventIds, phase, source, events, passed, outcome,
                    results, errors, groups, req, requested, found, wrongKey, opened,
                    roomNotified, notifiedMissing, storageAfterDispose, batches,
                    megolmSyncCache, megolmBackfillCache, nextCacheId, handed, thrown,
                    senderDeviceCache, queried, lookups, marks, isTrackingMembers >>

\* variant of PurgedSenderDeviceCache: the cache is kept
PurgedSenderDeviceCacheKept == senderDeviceCache

\* this._senderDeviceCache = new Map()
PurgedSenderDeviceCache == {}

\* notifyTimelineClosed()
notifyTimelineClosed ==
    /\ nextCacheId <= MaxCaches
    /\ disposedCaches' = disposedCaches \cup {megolmBackfillCache}
    /\ megolmBackfillCache' = nextCacheId
    /\ nextCacheId' = nextCacheId + 1
    /\ senderDeviceCache' = PurgedSenderDeviceCache
    /\ lookups' = [k \in SenderKeys |-> 0]
    /\ UNCHANGED << shareVars, clockVars, restoreVars, logVars, startupVars, decryptVars,
                    megolmSyncCache,
                    handed, thrown, queried, marks, isTrackingMembers >>

\* the sender keys of the decrypted events of the batch (result.senderCurve25519Key)
ResultSenderKeys == { e.sender_key : e \in { x \in events : x.event_id \in results } }

\* the results of the batch that have the sender key k
ResultsOf(k) == { e \in events : e.event_id \in results /\ e.sender_key = k }

\* results.values().map(result => _verifyDecryptionResult(result, txn)): every call
\* reads the cache before the query of another one has resolved, so each result
\* of a sender key that is not cached makes a query
QueriesFor(k) == Cardinality(ResultsOf(k))

\* if (device) setDevice, else if (!this._room.isTrackingMembers) setRoomNotTrackedYet
MarkFor(device, tracking) ==
    IF device THEN "device" ELSE IF ~tracking THEN "notTracked" ELSE "none"

\* BatchDecryptionResult.verifySenders(txn), that is _verifyDecryptionResult for
\* each result; known: the sender keys the device tracker has a device for;
\* tracking: this._room.isTrackingMembers
verifySenders(known, tracking) ==
    LET cached == { c.key : c \in { x \in senderDeviceCache : x.found } }
        asked == ResultSenderKeys \ cached
    IN
    /\ Written
    /\ results # {}
    /\ queried' = queried \cup asked
    /\ lookups' = [k \in SenderKeys |->
                      IF k \in asked \cap known THEN lookups[k] + QueriesFor(k)
                      ELSE lookups[k]]
    /\ senderDeviceCache' =
          { c \in senderDeviceCache : c.key \notin asked }
              \cup { [key |-> k, found |-> k \in known] : k \in asked }
    /\ isTrackingMembers' = tracking
    /\ marks' = [id \in EventIds |->
                    IF id \in results
                    THEN LET e == CHOOSE x \in events : x.event_id = id
                         IN MarkFor(e.sender_key \in cached \cup known, tracking)
                    ELSE marks[id]]
    /\ UNCHANGED << shareVars, clockVars, restoreVars, logVars, startupVars, decryptVars,
                    megolmSyncCache,
                    megolmBackfillCache, nextCacheId, disposedCaches, handed, thrown >>

\* ----------------------------------------------------------------- SpecDecrypt

NextDecrypt ==
    \/ \E evs \in Batches, src \in SourceValues, engineThrows \in BOOLEAN :
          prepareDecryptAll(evs, src, engineThrows)
    \/ write
    \/ timeoutElapsed
    \/ hasSession
    \/ \E k \in SessionKeys, a \in BackupAnswers : getSession(k, a)
    \/ \E k \in SessionKeys, r \in WriteOutcomes : writeRoomKey(k, r)
    \/ \E k \in SessionKeys : roomKeyArrives(k)
    \/ \E b \in {1, 2} : enableSessionBackup(b)
    \/ dispose

\* the inbound side, with the outbound side at rest
InitDecryptOnly ==
    /\ Init
    /\ members = {"@a"}
    /\ outbound = NoSession
    /\ operations = {}

SpecDecrypt == InitDecryptOnly /\ [][NextDecrypt]_vars

\* ------------------------------------------------------------------- SpecCache

NextCache ==
    \/ \E evs \in Batches, src \in SourceValues, engineThrows \in BOOLEAN :
          prepareDecryptAll(evs, src, engineThrows)
    \/ write
    \/ \E known \in SUBSET SenderKeys, tracking \in BOOLEAN : verifySenders(known, tracking)
    \/ notifyTimelineClosed
    \/ dispose

\* the caches of a room encryption without session backup
InitCacheOnly ==
    /\ InitDecryptOnly
    /\ sessionBackup = 0

SpecCache == InitCacheOnly /\ [][NextCache]_vars

\* ------------------------------------------------- properties of the outbound side

\* the slots in which _processShareRoomKeyOperation is under way for a new key
Processing == { "devices", "update", "encrypt", "send", "narrow", "withheld", "remove" }

\* C1: when _shareNewRoomKey starts to process its operation (the device lookup
\* is under way), the operation is in the operations store and its write
\* transaction is no longer open
C1_CommittedBeforeProcessing ==
    \A p \in Procs :
        (kind[p] = "share" /\ pc[p] \in Processing)
            => /\ \E o \in operations : o.id = operation[p].id
               /\ \A t \in openTxns : t.id # operation[p].id

C3_SingleFlushInFlight ==
    /\ [](Cardinality({ p \in Procs : kind[p] = "flush" }) <= 1)
    /\ [](isFlushingRoomKeyShares <=> \E p \in Procs : kind[p] = "flush")
    /\ [][ dropped' # dropped
            => /\ \E p \in Procs : kind[p] = "flush"
               /\ UNCHANGED << operations, openTxns, lastSent, isFlushingRoomKeyShares, kind,
                               pc, operation, devices, messages, queue >> ]_vars

\* C3, its case: a flush call was dropped while another flush is in flight
C3_Witness == dropped > 0 /\ \E p \in Procs : kind[p] = "flush"

\* C5: a batch with a departure discards the outbound session in the same step,
\* and the id of a session that was current at a departure is never the id of
\* the outbound session again
C5_DepartureRetiresSession ==
    /\ [](outbound.session_id \notin retired)
    /\ [][ members \ members' # {} => outbound' = NoSession ]_vars

\* C5, its case: after a departure discarded a session, encrypt made a new one
C5_Witness == retired # {} /\ outbound # NoSession

\* C6: a batch in which members joined and none left adds, when an outbound
\* session exists, exactly one share_room_key operation for exactly the joining
\* users with the key of that session, returns true and keeps the session; it
\* adds no operation when no outbound session exists
C6_JoinAddsOneOperation ==
    [][ (members \subseteq members' /\ members' # members)
        => IF outbound # NoSession
           THEN /\ \E o \in operations' \ operations :
                      /\ operations' = operations \cup {o}
                      /\ o.type = "share_room_key"
                      /\ o.userIds = members' \ members
                      /\ o.roomKeyMessage = outbound
                /\ shouldFlush' = "true"
                /\ outbound' = outbound
           ELSE /\ operations' = operations
                /\ outbound' = outbound ]_vars

\* C6, its case: a join with an outbound session added an operation for the
\* joining users and returned true
C6_Witness ==
    /\ shouldFlush = "true"
    /\ outbound # NoSession
    /\ \E o \in operations : o.userIds # NullUserIds /\ o.roomKeyMessage = outbound

\* C13: when the detached share task of encrypt ends, other than by a failed write
\* of its operation, and its write transaction has ended, the operation is in the
\* operations store, or the task has just removed it after sending the key
C13_ShareTaskQueuedOperation ==
    [][ \A p \in Procs :
          ( /\ kind[p] = "share"
            /\ pc[p] \in Processing
            /\ kind'[p] = "idle"
            /\ openTxns' = {} )
          => \/ \E o \in operations : o.id = operation[p].id
             \/ \E o \in operations' : o.id = operation[p].id ]_vars

\* C15: a writeMemberChanges call that sets its return value sends nothing to any
\* device, and the value is true when the call added an operation and false when
\* it did not
C15_ReturnsWhetherOperationAdded ==
    [][ shouldFlush' # shouldFlush
        => /\ lastSent' = lastSent
           /\ UNCHANGED << kind, pc, devices, messages >>
           /\ shouldFlush' = IF operations' # operations THEN "true" ELSE "false" ]_vars

\* -------------------------------------------------- properties of the inbound side

\* C4: a session record of the backup whose sender_key is not the one asked for
\* never gets a write txn opened, writeRoomKey called or room.notifyRoomKey called
C4_MismatchNeverImported ==
    \A k \in wrongKey : k \notin opened /\ k \notin roomNotified /\ req[k] = "done"

\* C4, its case: the backup answered a request with another sender's session
C4_Witness == wrongKey # {} /\ phase = "finished"

\* C7: once a batch is written, each non-redacted event id is a key of exactly
\* one of results and errors, and no redacted event id is a key of either
C7_ExactlyOneOfResultsAndErrors ==
    Written =>
        \A e \in events :
            IF e.redacted
            THEN e.event_id \notin results /\ e.event_id \notin DOMAIN errors
            ELSE (e.event_id \in results) # (e.event_id \in DOMAIN errors)

\* C8: a Sync batch written with a MEGOLM_NO_SESSION error and no session backup
\* keeps the error, has notifyMissingMegolmSession called and requests nothing
C8_NotifiesMissingSession ==
    (source = "Sync" /\ phase = "returned" /\ groups # {})
        => /\ \E id \in DOMAIN errors : errors[id] = NO_SESSION
           /\ notifiedMissing
           /\ requested = {}

\* C9: no detached task opens a storage txn or writes to storage after dispose()
C9_NoStorageAfterDispose == ~storageAfterDispose

\* C10 as stated: once the grace timeout of a Sync batch has elapsed, every group
\* whose session is still not stored is requested from the backup
C10_EveryMissingGroupRequested ==
    (source = "Sync" /\ phase \in {"requesting", "finished", "aborted"})
        => \A k \in groups : k \notin inbound => k \in requested

\* C10: for a Sync batch no getSession request is issued before the grace timeout
\* has elapsed, a group found stored after it is never requested, and every group
\* still missing is requested, unless the room encryption is disposed when the
\* timeout elapses or the read of inboundGroupSessions fails: then none is requested
C10_RequestsAfterGraceTimeout ==
    /\ [](source = "Sync" =>
            /\ phase \in {"prepared", "returned", "timeout", "check", "aborted", "failed"}
                  => requested = {}
            /\ requested \cap found = {}
            /\ phase \in {"requesting", "finished"}
                  => /\ found \subseteq inbound
                     /\ \A k \in groups : k \in requested)
    /\ [][ (source' = "Sync" /\ requested' # requested /\ requested' # {})
            => /\ phase = "check"
               /\ requested' = groups \ inbound ]_vars

\* C10, its case: after the timeout one group was found stored and another was
\* requested from the backup
C10_Witness ==
    /\ source = "Sync"
    /\ phase \in {"requesting", "finished"}
    /\ found # {}
    /\ requested # {}

\* C11: room.notifyRoomKey has been called for a session exactly when writeRoomKey
\* reported its recovered key as the best one and the write txn completed, and
\* then the session is in the inbound session store
C11_NotifiedIffBestAndWritten ==
    \A k \in SessionKeys :
        /\ (k \in roomNotified) <=> (written[k] = "best")
        /\ (k \in roomNotified) => (k \in inbound)

\* C11, its case: one recovered key was the best one and the room was notified,
\* another was not imported as the best one
C11_Witness ==
    /\ roomNotified # {}
    /\ \E k \in SessionKeys : written[k] \in {"known", "throws", "commitFails"}

\* C12: no event of another algorithm than megolm is handed to the decryption
\* engine, and once the batch is written such an event has the error
\* "Unsupported algorithm"
C12_UnsupportedNeverPassed ==
    /\ \A e \in passed : e.algorithm = MEGOLM_ALGORITHM
    /\ Written =>
          \A e \in events :
              (~e.redacted /\ e.algorithm # MEGOLM_ALGORITHM)
                  => /\ e.event_id \in DOMAIN errors
                     /\ errors[e.event_id] = UNSUPPORTED

\* C16: once a session backup client is set, no enableSessionBackup call replaces it
C16_FirstBackupClientWins ==
    [][ sessionBackup # 0 => sessionBackup' = sessionBackup ]_vars

\* C16, its case: enableSessionBackup was called with another client than the one
\* in use
C16_Witness == sessionBackup # 0 /\ lastEnable # 0 /\ lastEnable # sessionBackup

\* C14: a prepareDecryptAll call hands the engine the sync cache for Sync and the
\* backfill cache for Timeline; for Retry it hands a cache created for the call,
\* which is disposed when the call returns; it disposes no other cache and
\* replaces neither the sync nor the backfill cache; with any other source it
\* throws "Unknown source" and hands the engine nothing
C14_CacheBySource ==
    [][ batches' # batches
        => /\ megolmSyncCache' = megolmSyncCache
           /\ megolmBackfillCache' = megolmBackfillCache
           /\ source' \notin Sources
                 => /\ thrown' = "Unknown source"
                    /\ handed' = 0
                    /\ passed' = {}
                    /\ disposedCaches' = disposedCaches
           /\ source' = "Sync"
                 => handed' = megolmSyncCache /\ disposedCaches' = disposedCaches
           /\ source' = "Timeline"
                 => handed' = megolmBackfillCache /\ disposedCaches' = disposedCaches
           /\ source' = "Retry"
                 => /\ handed' = nextCacheId
                    /\ handed' \notin {megolmSyncCache, megolmBackfillCache}
                    /\ handed' \notin disposedCaches
                    /\ thrown' = "" => handed' \in disposedCaches'
                    /\ disposedCaches' \ disposedCaches \subseteq {handed'} ]_vars

\* C14, its case: a Retry call returned, its own cache is disposed and the sync and
\* backfill caches are not
C14_Witness ==
    /\ source = "Retry"
    /\ phase = "prepared"
    /\ handed \in disposedCaches
    /\ megolmSyncCache \notin disposedCaches
    /\ megolmBackfillCache \notin disposedCaches

\* C17: notifyTimelineClosed disposes the backfill cache and installs a new one,
\* empties the sender device cache, and leaves the sync cache (same object, as
\* disposed as before), the backup client, the flush guard and the pre-share
\* time as they are
C17_TimelineClosedFrame ==
    [][ megolmBackfillCache' # megolmBackfillCache
        => /\ megolmBackfillCache \in disposedCaches'
           /\ megolmBackfillCache' = nextCacheId
           /\ megolmBackfillCache' \notin disposedCaches'
           /\ senderDeviceCache' = {}
           /\ megolmSyncCache' = megolmSyncCache
           /\ (megolmSyncCache \in disposedCaches') <=> (megolmSyncCache \in disposedCaches)
           /\ UNCHANGED << sessionBackup, isFlushingRoomKeyShares, lastKeyPreShareTime >> ]_vars

\* C17, its case: the timeline was closed after sender devices had been cached
C17_Witness ==
    /\ megolmBackfillCache # 1
    /\ queried # {}
    /\ senderDeviceCache = {}
    /\ megolmSyncCache \notin disposedCaches

\* C18: ensureOutboundSession is asked only when no check was made before or the
\* last one is at least 60 s ago, and then a new roomKeyMessage starts
\* _shareNewRoomKey for it, which the call awaits; a call made earlier returns at
\* once and changes nothing
C18_PreShareRateLimited ==
    /\ [][ lastKeyPreShareTime' # lastKeyPreShareTime
            => /\ \/ lastKeyPreShareTime = NoTime
                  \/ now - lastKeyPreShareTime >= MIN_PRESHARE_INTERVAL
               /\ lastKeyPreShareTime' = now
               /\ outbound' # outbound
                     => \E p \in Procs :
                           /\ kind[p] = "idle"
                           /\ kind'[p] = "preshare"
                           /\ pc'[p] = "write"
                           /\ operation'[p].roomKeyMessage = outbound' ]_vars
    /\ [][ skipped' # skipped
            => /\ lastKeyPreShareTime # NoTime
               /\ now - lastKeyPreShareTime < MIN_PRESHARE_INTERVAL
               /\ UNCHANGED << lastKeyPreShareTime, outbound, nextSessionId, operations,
                               openTxns, lastSent, kind, pc, operation >> ]_vars
    /\ [][ (outbound' # outbound /\ outbound' # NoSession)
            => lastKeyPreShareTime' = now ]_vars

\* C18, its case: a check yielded a roomKeyMessage whose share is under way, and a
\* call made less than 60 s later was skipped
C18_Witness == skipped > 0 /\ \E p \in Procs : kind[p] = "preshare"

\* ------------------------------------------------- restore from the timeline

\* a timeline entry: e.event, e.isEncrypted, e.isDecrypted (hasEvent: e.event is set)
Entry(id, enc, dec, has) ==
    [event |-> CHOOSE e \in Events : e.event_id = id,
     isEncrypted |-> enc, isDecrypted |-> dec, hasEvent |-> has]

\* the entries of a timeline, oldest first
Timeline ==
    << Entry("$3", TRUE, TRUE, TRUE), Entry("$1", TRUE, FALSE, TRUE),
       Entry("$3", TRUE, FALSE, FALSE), Entry("$3", TRUE, FALSE, TRUE),
       Entry("$2", TRUE, FALSE, TRUE), Entry("$1", FALSE, FALSE, TRUE) >>

\* the lists restoreMissingSessionsFromBackup is called with: entries of the
\* timeline in its order
EntryLists ==
    { [i \in 1..Len(at) |-> Timeline[at[i]]] :
        at \in { f \in UNION { [1..n -> DOMAIN Timeline] : n \in 0..MaxEntries } :
                    \A i, j \in DOMAIN f : i < j => f[i] < f[j] } }

\* e => e.isEncrypted && !e.isDecrypted && e.event
Restorable(e) == e.isEncrypted /\ ~e.isDecrypted /\ e.hasEvent

\* entries.filter(...).map(e => e.event)
RestorableEvents(entries) ==
    LET kept == SelectSeq(entries, Restorable)
    IN [i \in 1..Len(kept) |-> kept[i].event]

\* Array.from(groupEventsBySession(events).values()): one group for each
\* (sender key, session id), in the order of their first event
RECURSIVE KeysInOrder(_)
KeysInOrder(evs) ==
    IF evs = << >> THEN << >>
    ELSE LET front == KeysInOrder(SubSeq(evs, 1, Len(evs) - 1))
             k == KeyOf(evs[Len(evs)])
         IN IF \E i \in 1..Len(front) : front[i] = k THEN front ELSE Append(front, k)

\* variant of NextToRequest: the groups are taken first to last
NextToRequestForward(missing, issued) == missing[issued + 1]

\* for (var i = missingSessions.length - 1; i >= 0; i--): the group the loop is at
\* once it has requested `issued` of them
NextToRequest(missing, issued) == missing[Len(missing) - issued]

\* variant of Propagates: a failed recovery rejects the request
PropagatesFailure(k) == k \in failed

\* try { ... } catch (err) { ... } of _requestMissingSessionFromBackup: whether the
\* request for k rejects
Propagates(k) == FALSE

\* a request is between its call and its return
InFlight(k) == req[k] \in {"fetching", "write"}

\* await log.wrap("session", log => this._requestMissingSessionFromBackup(...))
\* up to the first await of the request
issueRequest(k) ==
    /\ requestMissingSessionFromBackup({k})
    /\ restoreIssued' = Append(restoreIssued, k)

\* restoreMissingSessionsFromBackup(entries, log) up to `await readTxn`
restoreMissingSessionsFromBackup(entries) ==
    /\ restorePc \in {"idle", "done", "failed"}
    /\ \A k \in SessionKeys : ~InFlight(k)
    /\ restoreEntries' = entries
    /\ restoreGroups' = KeysInOrder(RestorableEvents(entries))
    /\ restorePc' = "check"
    /\ restoreMissing' = << >>
    /\ restoreIssued' = << >>
    /\ failed' = {}
    /\ req' = [k \in SessionKeys |-> "none"]
    /\ requested' = {}
    /\ wrongKey' = {}
    /\ opened' = {}
    /\ roomNotified' = {}
    /\ notifiedMissing' = FALSE
    /\ written' = [k \in SessionKeys |-> "none"]
    /\ fetches' = [k \in SessionKeys |-> 0]
    /\ logged' = [k \in SessionKeys |-> NotLogged]
    /\ UNCHANGED << shareVars, startupVars, cacheVars, clockVars, lastEnable, sessionBackup,
                    disposed,
                    inbound, missingKeyEventIds, phase, source, events, passed, outcome,
                    results, errors, groups, found, storageAfterDispose, batches >>

\* the read transaction, hasSession for every group, missingSessions, and the first
\* turn of the loop
restoreCheck ==
    /\ restorePc = "check"
    /\ storageAfterDispose' = (storageAfterDispose \/ disposed)
    /\ \E rejects \in BOOLEAN :
          IF rejects
          THEN /\ restorePc' = "failed"
               /\ UNCHANGED << restoreMissing, restoreIssued, req, requested,
                               notifiedMissing, fetches >>
          ELSE /\ restoreMissing' = SelectSeq(restoreGroups, LAMBDA k : k \notin inbound)
               /\ IF restoreMissing' = << >>
                  THEN /\ restorePc' = "done"
                       /\ UNCHANGED << restoreIssued, req, requested, notifiedMissing, fetches >>
                  ELSE /\ restorePc' = "requesting"
                       /\ issueRequest(NextToRequest(restoreMissing', 0))
    /\ UNCHANGED << shareVars, startupVars, cacheVars, clockVars, lastEnable, sessionBackup,
                    disposed,
                    inbound, missingKeyEventIds, phase, source, events, passed, outcome,
                    results, errors, groups, found, wrongKey, opened, roomNotified,
                    written, batches, restoreEntries, restoreGroups, failed, logged >>

\* the request the loop awaits has returned: the next turn of the loop, or the
\* return of restoreMissingSessionsFromBackup
restoreNext ==
    /\ restorePc = "requesting"
    /\ LET last == restoreIssued[Len(restoreIssued)] IN
       /\ ~InFlight(last)
       /\ IF Propagates(last)
          THEN /\ restorePc' = "failed"
               /\ UNCHANGED << restoreIssued, req, requested, notifiedMissing, fetches >>
          ELSE IF Len(restoreIssued) = Len(restoreMissing)
          THEN /\ restorePc' = "done"
               /\ UNCHANGED << restoreIssued, req, requested, notifiedMissing, fetches >>
          ELSE /\ issueRequest(NextToRequest(restoreMissing, Len(restoreIssued)))
               /\ UNCHANGED restorePc
    /\ UNCHANGED << shareVars, startupVars, cacheVars, clockVars, lastEnable, sessionBackup,
                    disposed,
                    inbound, missingKeyEventIds, phase, source, events, passed, outcome,
                    results, errors, groups, found, wrongKey, opened, roomNotified,
                    written, storageAfterDispose, batches, restoreEntries, restoreGroups,
                    restoreMissing, failed, logged >>

NextRestore ==
    \/ \E entries \in EntryLists : restoreMissingSessionsFromBackup(entries)
    \/ restoreCheck
    \/ restoreNext
    \/ \E k \in SessionKeys, a \in BackupAnswers : getSession(k, a)
    \/ \E k \in SessionKeys, r \in WriteOutcomes : writeRoomKey(k, r)
    \/ \E k \in SessionKeys : roomKeyArrives(k)
    \/ enableSessionBackup(1)

InitRestoreOnly == InitDecryptOnly /\ lastEnable = 0

SpecRestore == InitRestoreOnly /\ [][NextRestore]_vars

\* C19: a backup request is issued only when none is under way, for the group the
\* reverse loop is at, which is a (sender key, session id) of an encrypted,
\* undecrypted entry with a raw event; the groups the loop goes through are those
\* whose session the read of inboundGroupSessions did not find
C19_RequestsMissingGroupsLastFirst ==
    /\ [](Cardinality({ k \in SessionKeys : InFlight(k) }) <= 1)
    /\ [][ (restoreIssued' # restoreIssued /\ restoreIssued' # << >>)
            => LET k == restoreIssued'[Len(restoreIssued')] IN
               /\ restoreIssued' = Append(restoreIssued, k)
               /\ \A j \in SessionKeys : ~InFlight(j)
               /\ k = restoreMissing'[Len(restoreMissing') - Len(restoreIssued)]
               /\ \E i \in DOMAIN restoreEntries' :
                     /\ Restorable(restoreEntries'[i])
                     /\ KeyOf(restoreEntries'[i].event) = k
               /\ sessionBackup # 0 => req'[k] = "fetching" ]_vars
    /\ [][ (restorePc = "check" /\ restorePc' \in {"requesting", "done"})
            => /\ \A i \in DOMAIN restoreMissing' : restoreMissing'[i] \notin inbound
               /\ \A i \in DOMAIN restoreGroups :
                     restoreGroups[i] \notin inbound
                        => \E j \in DOMAIN restoreMissing' :
                              restoreMissing'[j] = restoreGroups[i] ]_vars
    /\ [](\A k \in requested : \E i \in DOMAIN restoreIssued : restoreIssued[i] = k)

\* C19, its case: a call given three entries, one of them not to be restored, has
\* requested two groups from the backup one after the other
C19_Witness ==
    /\ restorePc = "done"
    /\ Len(restoreEntries) = 3
    /\ \E i \in DOMAIN restoreEntries : ~Restorable(restoreEntries[i])
    /\ Len(restoreIssued) = 2
    /\ Cardinality(requested) = 2

\* C20: a restoreMissingSessionsFromBackup call returns only when every missing
\* group has been requested, whatever became of the requests before; it rejects
\* only when the read of inboundGroupSessions does, before any request
C20_FailureDoesNotStopOthers ==
    /\ restorePc = "done" => Len(restoreIssued) = Len(restoreMissing)
    /\ restorePc = "failed" => restoreIssued = << >>
    /\ restorePc = "requesting" => restoreIssued # << >>

\* C20, its case: the recovery of the first group requested failed, and the second
\* group was requested all the same
C20_Witness ==
    /\ restorePc = "done"
    /\ Len(restoreIssued) = 2
    /\ restoreIssued[1] \in failed

\* C21: in a batch the backup is asked at most once for a (sender key, session id),
\* however many of its events miss that session
C21_OneRequestPerSession == \A k \in SessionKeys : fetches[k] <= 1

\* C21, its case: two events of the batch miss the same session and the backup
\* has been asked for it
C21_Witness ==
    /\ phase \in {"requesting", "finished"}
    /\ \E k \in SessionKeys :
          /\ fetches[k] = 1
          /\ Cardinality({ e \in events : /\ KeyOf(e) = k
                                           /\ e.event_id \in DOMAIN errors
                                           /\ errors[e.event_id] = NO_SESSION }) = 2

\* C22: a M_NOT_FOUND failure is only marked as not found, and every other
\* failure is put on the log item as its error
C22_NotFoundIsNotAnError ==
    \A k \in SessionKeys :
        /\ logged[k].cause = "M_NOT_FOUND" => logged[k].mark = "not_found"
        /\ logged[k].cause = "other" => logged[k].mark = "error"

\* C23: an operation with userIds = null gets the devices of all tracked members
\* and their owners as userIds, and this update is in the operations store when
\* the pass goes on to the olm encryption; an operation with userIds gets the
\* devices of these users; nothing is sent before the encryption, and a payload
\* goes only to devices of the users of the operation
C23_ResolvedAndStoredBeforeSending ==
    [][ \A p \in Procs :
          /\ (pc[p] = "devices" /\ pc'[p] \notin {"idle", "devices"}
                /\ operation[p].userIds = NullUserIds)
                => /\ pc'[p] = "update"
                   /\ devices'[p] = DevicesOf(members)
                   /\ operation'[p].userIds = OwnersOf(devices'[p])
                   /\ lastSent' = lastSent
          /\ (pc[p] = "update" /\ pc'[p] \notin {"idle", "update"})
                => /\ pc'[p] = "encrypt"
                   /\ operation[p] \in operations'
                   /\ operation'[p] = operation[p]
                   /\ lastSent' = lastSent
          /\ (pc[p] = "devices" /\ pc'[p] \notin {"idle", "devices"}
                /\ operation[p].userIds # NullUserIds)
                => /\ pc'[p] = "encrypt"
                   /\ devices'[p] = DevicesOf(operation[p].userIds)
                   /\ lastSent' = lastSent
          /\ (pc'[p] = "encrypt" /\ pc[p] # "encrypt") => pc[p] \in {"devices", "update"}
          /\ (pc'[p] = "send" /\ pc[p] # "send") => pc[p] = "encrypt" /\ lastSent' = lastSent
          /\ (pc[p] = "send" /\ pc'[p] \in {"narrow", "remove"})
                => /\ lastSent'.op = operation[p].id
                   /\ lastSent'.devices \subseteq DevicesOf(operation[p].userIds) ]_vars

\* C23, its case: the share task of a new room key, whose operation is written
\* with userIds = null, has its resolved operation in the store and is sending
C23_Witness ==
    \E p \in Procs :
        /\ kind[p] = "share"
        /\ pc[p] = "send"
        /\ messages[p] # {}
        /\ operation[p].userIds = {"@a", "@b"}
        /\ operation[p] \in operations

\* C24: with devices that got no olm message, the pass sends the encrypted
\* messages, then stores the operation with userIds narrowed to the owners of the
\* missing devices, and then sends the withheld notice to exactly the missing
\* devices; while the notice is being sent the stored operation is the narrowed one
C24_NarrowedBeforeWithheld ==
    /\ [][ \A p \in Procs :
             /\ (pc'[p] = "narrow" /\ pc[p] # "narrow")
                   => /\ pc[p] = "send"
                      /\ MissingDevices(p) # {}
                      /\ lastSent' = ToDevice(p, ENCRYPTED_TYPE, messages[p])
             /\ (pc[p] = "send" /\ pc'[p] = "remove") => MissingDevices(p) = {}
             /\ (pc[p] = "narrow" /\ pc'[p] \notin {"idle", "narrow"})
                   => /\ pc'[p] = "withheld"
                      /\ operation'[p].userIds = OwnersOf(MissingDevices(p))
                      /\ operation'[p] \in operations'
                      /\ lastSent' = lastSent
             /\ (pc'[p] = "withheld" /\ pc[p] # "withheld") => pc[p] = "narrow"
             /\ (pc[p] = "withheld" /\ pc'[p] \notin {"idle", "withheld"})
                   => /\ lastSent'.type = WITHHELD_TYPE
                      /\ lastSent'.op = operation[p].id
                      /\ lastSent'.devices = MissingDevices(p) ]_vars
    /\ [](\A p \in Procs : pc[p] = "withheld" => operation[p] \in operations)

\* C25: an operation leaves the store only in the last step of a pass, which is
\* reached only after the send without missing devices or after the withheld
\* notice; a flush that goes on to its next operation has removed the one
\* before; a pass that throws before its last step leaves the store as it is
C25_RemovedOnlyByCompletedPass ==
    [][ /\ \A o \in operations :
              (\A x \in operations' : x.id # o.id)
                 => \E p \in Procs : pc[p] = "remove" /\ operation[p].id = o.id
        /\ \A p \in Procs :
              /\ (pc'[p] = "remove" /\ pc[p] # "remove")
                    => \/ pc[p] = "send" /\ MissingDevices(p) = {}
                       \/ pc[p] = "withheld" /\ lastSent'.type = WITHHELD_TYPE
              /\ (pc[p] = "remove" /\ pc'[p] = "devices")
                    => \A x \in operations' : x.id # operation[p].id
              /\ (pc[p] \in Processing \ {"remove"} /\ pc'[p] = "idle")
                    => operations' = operations ]_vars

\* C25, its case: a flush sent the withheld notice for an operation, removed it and
\* went on to its next operation
C25_Witness ==
    \E p \in Procs :
        /\ kind[p] = "flush"
        /\ pc[p] = "devices"
        /\ lastSent.type = WITHHELD_TYPE
        /\ lastSent.op # operation[p].id
        /\ \A x \in operations : x.id # lastSent.op

\* C26, as stated: once a pass with undelivered devices has completed, the
\* operation is still in the store, narrowed to the users of these devices
C26_StaysStoredForRetry ==
    [][ \A p \in Procs :
          (pc[p] = "remove" /\ pc'[p] = "devices" /\ MissingDevices(p) # {})
             => \E x \in operations' :
                   /\ x.id = operation[p].id
                   /\ x.userIds = OwnersOf(MissingDevices(p)) ]_vars

\* C26: a pass with undelivered devices does not end at the send: the devices with
\* a message are sent to, the operation is stored narrowed to the owners of the
\* undelivered devices, the withheld notice follows, and the pass then goes on to
\* remove the operation: a flush that goes on to its next operation has removed it
C26_NarrowedThenRemoved ==
    [][ \A p \in Procs :
          /\ (pc[p] = "send" /\ pc'[p] \notin {"idle", "send"} /\ MissingDevices(p) # {})
                => /\ pc'[p] = "narrow"
                   /\ lastSent'.type = ENCRYPTED_TYPE
                   /\ lastSent'.devices = messages[p]
          /\ (pc[p] = "narrow" /\ pc'[p] \notin {"idle", "narrow"})
                => \E x \in operations' :
                      /\ x.id = operation[p].id
                      /\ x.userIds = OwnersOf(MissingDevices(p))
          /\ (pc[p] = "withheld" /\ pc'[p] \notin {"idle", "withheld"})
                => /\ pc'[p] = "remove"
                   /\ operations' = operations
          /\ (pc[p] = "remove" /\ pc'[p] = "devices" /\ MissingDevices(p) # {})
                => \A x \in operations' : x.id # operation[p].id ]_vars

\* C26, its case: a flush sent the key to the devices with a message and the notice
\* to the one device without, removed the operation and went on to the next one
C26_Witness ==
    \E p \in Procs :
        /\ kind[p] = "flush"
        /\ pc[p] = "devices"
        /\ lastSent.type = WITHHELD_TYPE
        /\ Cardinality(lastSent.devices) = 1
        /\ lastSent.op # operation[p].id
        /\ \A x \in operations : x.id # lastSent.op

\* C27: write adds to the missing-key event ids, before it returns, the events of
\* a Sync batch whose error is MEGOLM_NO_SESSION, each under its session key; it
\* adds nothing for another source or another error, and nothing else adds any
C27_MissingKeyEventIdsOnlyForSync ==
    /\ [][ (phase = "prepared" /\ phase' # "prepared")
            => missingKeyEventIds' = missingKeyEventIds \cup
                  { << KeyOf(e), e.event_id >> :
                      e \in { x \in events : /\ source = "Sync"
                                             /\ x.event_id \in DOMAIN errors'
                                             /\ errors'[x.event_id] = NO_SESSION } } ]_vars
    /\ [][ missingKeyEventIds' # missingKeyEventIds
            => phase = "prepared" /\ source = "Sync" ]_vars

\* C27, its case: a Sync batch was written in which one event misses its session
\* and another one failed otherwise
C27_Witness ==
    /\ Written
    /\ source = "Sync"
    /\ \E e1, e2 \in events :
          /\ e1.event_id \in DOMAIN errors
          /\ errors[e1.event_id] = NO_SESSION
          /\ << KeyOf(e1), e1.event_id >> \in missingKeyEventIds
          /\ e2.event_id \in DOMAIN errors
          /\ errors[e2.event_id] # NO_SESSION
          /\ << KeyOf(e2), e2.event_id >> \notin missingKeyEventIds

\* C29: since the sender device cache was created, the device tracker was asked at
\* most once for a sender key whose device it found; verifySenders sets the device
\* on a result whose sender device is known, marks it 'room not tracked yet'
\* exactly when no device is found and the room does not track members, and
\* leaves it unmarked when no device is found in a tracked room
C29_SenderDeviceLookedUpOnce ==
    /\ [](\A k \in SenderKeys : lookups[k] <= 1)
    /\ [][ (marks' # marks /\ batches' = batches)
            => \A e \in events :
                  e.event_id \in results
                     => LET device == \E c \in senderDeviceCache' :
                                         c.key = e.sender_key /\ c.found
                        IN /\ (marks'[e.event_id] = "device") <=> device
                           /\ (marks'[e.event_id] = "notTracked")
                                 <=> (~device /\ ~isTrackingMembers')
                           /\ (marks'[e.event_id] = "none")
                                 <=> (~device /\ isTrackingMembers') ]_vars

\* C28: a flush goes on to an operation only from the start of its loop or from
\* the last step of the operation before; the operation it goes on to is the
\* first share_room_key entry of what is left of its list, the entries before it
\* being skipped; without a list, the list is the stored share_room_key
\* operations of this room
C28_FlushOneAtATimeInOrder ==
    /\ [][ \A p \in Procs :
             /\ (kind[p] = "flush" /\ pc[p] = "load" /\ pc'[p] = "devices")
                   => << operation'[p] >> \o queue'[p]
                         = SortedById({ o \in operations \cup ForeignOperations :
                                           o.type = "share_room_key" /\ o.scope = RoomId })
             /\ (kind'[p] = "flush" /\ operation'[p].id # operation[p].id
                   /\ operation'[p] # NoOperation)
                   => /\ pc[p] \in {"idle", "load", "remove"}
                      /\ pc'[p] = "devices"
             /\ (kind[p] = "flush" /\ pc[p] = "remove" /\ pc'[p] = "devices")
                   => \E i \in 1..Len(queue[p]) :
                         /\ queue[p][i] = operation'[p]
                         /\ \A j \in 1..(i - 1) : queue[p][j].type # "share_room_key"
                         /\ queue'[p] = SubSeq(queue[p], i + 1, Len(queue[p])) ]_vars
    /\ [](\A p \in Procs : kind[p] = "flush" /\ pc[p] # "load"
                              => operation[p].type = "share_room_key")

\* C28, its case: a flush given a list removed its first operation and is at the
\* second one, with an entry of another type still in its list
C28_Witness ==
    \E p \in Procs :
        /\ kind[p] = "flush"
        /\ pc[p] = "devices"
        /\ operation[p].id = 2
        /\ \A x \in operations : x.id # 1
        /\ \E i \in 1..Len(queue[p]) : queue[p][i].type = "other"

\* C30: no two runs of _processShareRoomKeyOperation are at work on the same
\* stored operation at the same time
C30_NoOverlappingRuns ==
    \A p, q \in Procs :
        (p # q /\ pc[p] \in Processing /\ pc[q] \in Processing)
           => operation[p].id # operation[q].id

\* C31: when a flush ends, by a return or by a throw, the flag is false; a flush
\* call made while no flush is in flight is not dropped; a dropped call leaves the
\* flag of the flush in flight set
C31_GuardReleasedWhenFlushEnds ==
    [][ /\ \A p \in Procs : (kind[p] = "flush" /\ kind'[p] # "flush")
                               => ~isFlushingRoomKeyShares'
        /\ (calls' # calls /\ \A p \in Procs : kind[p] # "flush") => dropped' = dropped
        /\ dropped' # dropped => isFlushingRoomKeyShares /\ isFlushingRoomKeyShares' ]_vars

\* C31, its case: a flush threw with operation 1 still stored, and the next flush
\* call, the second call made, was not dropped and is processing that operation
C31_Witness ==
    /\ calls = 2 /\ dropped = 0
    /\ outbound = NoSession /\ retired = {} /\ nextSessionId = 2
    /\ \E p \in Procs : kind[p] = "flush" /\ pc[p] = "devices" /\ operation[p].id = 1

\* the cache objects createSessionCache has made so far
CreatedCaches == 1..(nextCacheId - 1)

\* C32: every cache that was created and is not the sync or the backfill cache of
\* the room encryption is disposed, after a prepareDecryptAll call that returned
\* and after one that threw; after dispose() the sync and the backfill cache are
\* disposed too
C32_NoCacheLeftUndisposed ==
    /\ \A c \in CreatedCaches :
          c \notin {megolmSyncCache, megolmBackfillCache} => c \in disposedCaches
    /\ disposed => {megolmSyncCache, megolmBackfillCache} \subseteq disposedCaches

\* ------------------------------------------------------------ SessionContainer

\* session.start calls in one behaviour
MaxStarts == 2
\* start calls that return at the status check in one behaviour
MaxIgnored == 2

\* what the variables of the room encryption and of createStores are left as
containerFrame == << shareVars, decryptVars, cacheVars, clockVars, restoreVars, logVars,
                     schemaVars >>

\* what hsApi.passwordLogin and sessionInfoStorage.add can reject with: a
\* HomeServerError with errcode M_FORBIDDEN, a HomeServerError with another
\* errcode, a ConnectionError, or any other error
LoginErrors == {"M_FORBIDDEN", "HomeServerError", "ConnectionError", "Error"}

\* variant of LoginFailureOf: every HomeServerError counts as wrong credentials
LoginFailureOfAnyCode(err) ==
    IF err \in {"M_FORBIDDEN", "HomeServerError"} THEN "Credentials"
    ELSE IF err = "ConnectionError" THEN "Connection"
    ELSE "null"

\* this._loginFailure as the catch block of the login phase sets it
LoginFailureOf(err) ==
    IF err = "M_FORBIDDEN" THEN "Credentials"
    ELSE IF err = "HomeServerError" THEN "Unknown"
    ELSE IF err = "ConnectionError" THEN "Connection"
    ELSE "null"

\* the status the catch block of the login phase sets
LoginStatusOf(err) ==
    IF err \in {"M_FORBIDDEN", "HomeServerError", "ConnectionError"} THEN "LoginFailed"
    ELSE "Error"

\* variant of NotLoading: the status is not looked at
NotLoadingUnchecked == TRUE

\* this._status.get() === LoadStatus.NotLoading
NotLoading == status = "NotLoading"

\* a start call returns at its status check
ignoreStart ==
    /\ ignoredStarts < MaxIgnored
    /\ ignoredStarts' = ignoredStarts + 1
    /\ UNCHANGED << status, loadError, loginFailure, storage, loadedSession, sync, syncStatus,
                    sessionStartedByReconnector, reconnectSubscription,
                    waitForFirstSyncHandle, loadPc, isNewLogin, thrownInLoad,
                    containerDisposed, storages, sessions, versionsRequests, sessionStarts,
                    afterDispose >>

\* startWithExistingSession(sessionId) up to the await of sessionInfoStorage.get
startWithExistingSession ==
    /\ IF ~NotLoading
       THEN ignoreStart
       ELSE /\ loadPc \in {"idle", "done"}
            /\ status' = "Loading"
            /\ loadPc' = "get"
            /\ isNewLogin' = FALSE
            /\ UNCHANGED << loadError, loginFailure, storage, loadedSession, sync, syncStatus,
                            sessionStartedByReconnector, reconnectSubscription,
                            waitForFirstSyncHandle, thrownInLoad, containerDisposed,
                            storages, sessions, versionsRequests, sessionStarts,
                            afterDispose, ignoredStarts >>
    /\ UNCHANGED containerFrame

\* startWithLogin(homeServer, username, password) up to the await of passwordLogin
startWithLogin ==
    /\ IF ~NotLoading
       THEN ignoreStart
       ELSE /\ loadPc \in {"idle", "done"}
            /\ status' = "Login"
            /\ loadPc' = "login"
            /\ isNewLogin' = TRUE
            /\ UNCHANGED << loadError, loginFailure, storage, loadedSession, sync, syncStatus,
                            sessionStartedByReconnector, reconnectSubscription,
                            waitForFirstSyncHandle, thrownInLoad, containerDisposed,
                            storages, sessions, versionsRequests, sessionStarts,
                            afterDispose, ignoredStarts >>
    /\ UNCHANGED containerFrame

\* variant of LoadCatch: the failure is reported as a failed login
LoadCatchAsLoginFailed(err) ==
    /\ loadError' = err
    /\ thrownInLoad' = err
    /\ status' = "LoginFailed"
    /\ loadPc' = "done"

\* the catch block of the load phase: this._error = err, status Error
LoadCatch(err) ==
    /\ loadError' = err
    /\ thrownInLoad' = err
    /\ status' = "Error"
    /\ loadPc' = "done"

\* the catch block of the login phase
LoginCatch(err) ==
    /\ loadError' = err
    /\ loginFailure' = LoginFailureOf(err)
    /\ status' = LoginStatusOf(err)
    /\ loadPc' = "done"

\* _loadSessionInfo(sessionInfo, isNewLogin, log) up to the await of
\* storageFactory.create
LoadSessionInfoBegin ==
    /\ sessionStartedByReconnector' = FALSE
    /\ status' = "Loading"
    /\ loadPc' = "create"

\* sessionInfoStorage.get(sessionId) settles: the info is found, there is none, or
\* the read rejects
sessionInfoGet(r) ==
    /\ loadPc = "get"
    /\ IF r = "found"
       THEN LoadSessionInfoBegin /\ UNCHANGED << loadError, thrownInLoad >>
       ELSE /\ LoadCatch(IF r = "missing" THEN "Invalid session id" ELSE "sessionInfoStorage")
            /\ UNCHANGED sessionStartedByReconnector
    /\ UNCHANGED << loginFailure, storage, loadedSession, sync, syncStatus,
                    reconnectSubscription, waitForFirstSyncHandle, isNewLogin,
                    containerDisposed, storages, sessions, versionsRequests, sessionStarts,
                    afterDispose, ignoredStarts, containerFrame >>

\* hsApi.passwordLogin(...).response() settles
passwordLogin(r) ==
    /\ loadPc = "login"
    /\ IF r = "ok"
       THEN loadPc' = "add" /\ UNCHANGED << loadError, loginFailure, status >>
       ELSE LoginCatch(r)
    /\ UNCHANGED << storage, loadedSession, sync, syncStatus, sessionStartedByReconnector,
                    reconnectSubscription, waitForFirstSyncHandle, isNewLogin, thrownInLoad,
                    containerDisposed, storages, sessions, versionsRequests, sessionStarts,
                    afterDispose, ignoredStarts, containerFrame >>

\* sessionInfoStorage.add(sessionInfo) settles
sessionInfoAdd(r) ==
    /\ loadPc = "add"
    /\ IF r = "ok"
       THEN LoadSessionInfoBegin /\ UNCHANGED << loadError, loginFailure >>
       ELSE LoginCatch(r) /\ UNCHANGED sessionStartedByReconnector
    /\ UNCHANGED << storage, loadedSession, sync, syncStatus, reconnectSubscription,
                    waitForFirstSyncHandle, isNewLogin, thrownInLoad, containerDisposed,
                    storages, sessions, versionsRequests, sessionStarts, afterDispose,
                    ignoredStarts, containerFrame >>

\* this._storage = await this._platform.storageFactory.create(sessionInfo.id)
storageCreate(ok) ==
    /\ loadPc = "create"
    /\ IF ok
       THEN /\ storage' = "open"
            /\ storages' = storages + 1
            /\ loadPc' = "olm"
            /\ UNCHANGED << loadError, thrownInLoad, status >>
       ELSE /\ LoadCatch("storageFactory.create")
            /\ UNCHANGED << storage, storages >>
    /\ UNCHANGED << loginFailure, loadedSession, sync, syncStatus,
                    sessionStartedByReconnector, reconnectSubscription,
                    waitForFirstSyncHandle, isNewLogin, containerDisposed, sessions,
                    versionsRequests, sessionStarts, afterDispose, ignoredStarts,
                    containerFrame >>

\* await this._olmPromise and this._workerPromise, then the request scheduler and
\* the Session are created, up to the await of session.load
olmLoaded(ok) ==
    /\ loadPc = "olm"
    /\ IF ok
       THEN /\ loadedSession' = "created"
            /\ sessions' = sessions + 1
            /\ loadPc' = "load"
            /\ UNCHANGED << loadError, thrownInLoad, status >>
       ELSE /\ LoadCatch("olm")
            /\ UNCHANGED << loadedSession, sessions >>
    /\ UNCHANGED << loginFailure, storage, sync, syncStatus, sessionStartedByReconnector,
                    reconnectSubscription, waitForFirstSyncHandle, isNewLogin,
                    containerDisposed, storages, versionsRequests, sessionStarts,
                    afterDispose, ignoredStarts, containerFrame >>

\* what sync.start() can do: start the sync, throw a ConnectionError, or throw
\* another error
SyncStartOutcomes == {"started", "ConnectionError", "Error"}

\* new Sync(...), the subscription to the reconnector, and _waitForFirstSync up to
\* its await; sr: what sync.start() does
BeginFirstSync(sr) ==
    /\ sync' = "created"
    /\ reconnectSubscription' = TRUE
    /\ IF sr = "started"
       THEN /\ syncStatus' = "InitialSync"
            /\ status' = "FirstSync"
            /\ waitForFirstSyncHandle' = "pending"
            /\ loadPc' = "wait"
            /\ UNCHANGED << loadError, thrownInLoad >>
       ELSE IF sr = "ConnectionError"
       THEN /\ waitForFirstSyncHandle' =
                  IF syncStatus \in {"Syncing", "Stopped"} THEN "resolved" ELSE "pending"
            /\ loadPc' = "wait"
            /\ UNCHANGED << syncStatus, status, loadError, thrownInLoad >>
       ELSE /\ LoadCatch("sync.start")
            /\ UNCHANGED << syncStatus, waitForFirstSyncHandle >>

\* await this._session.load(log) settles
sessionLoad(ok, sr) ==
    /\ loadPc = "load"
    /\ IF ~ok
       THEN /\ LoadCatch("session.load")
            /\ UNCHANGED << sync, syncStatus, reconnectSubscription, waitForFirstSyncHandle >>
       ELSE IF isNewLogin
       THEN /\ status' = "SessionSetup"
            /\ loadPc' = "identity"
            /\ UNCHANGED << loadError, thrownInLoad, sync, syncStatus, reconnectSubscription,
                            waitForFirstSyncHandle >>
       ELSE BeginFirstSync(sr)
    /\ UNCHANGED << loginFailure, storage, loadedSession, sessionStartedByReconnector,
                    isNewLogin, containerDisposed, storages, sessions, versionsRequests,
                    sessionStarts, afterDispose, ignoredStarts, containerFrame >>

\* await this._session.createIdentity(log) settles
createIdentity(ok, sr) ==
    /\ loadPc = "identity"
    /\ IF ~ok
       THEN /\ LoadCatch("createIdentity")
            /\ UNCHANGED << sync, syncStatus, reconnectSubscription, waitForFirstSyncHandle >>
       ELSE BeginFirstSync(sr)
    /\ UNCHANGED << loginFailure, storage, loadedSession, sessionStartedByReconnector,
                    isNewLogin, containerDisposed, storages, sessions, versionsRequests,
                    sessionStarts, afterDispose, ignoredStarts, containerFrame >>

\* the sync goes on: the first sync succeeds (Syncing) or the sync stops with an
\* error; a pending waitFor handle resolves
syncChanges(s) ==
    /\ sync = "created"
    /\ syncStatus \notin {"Stopped", s}
    /\ syncStatus' = s
    /\ waitForFirstSyncHandle' =
          IF waitForFirstSyncHandle = "pending" THEN "resolved" ELSE waitForFirstSyncHandle
    /\ UNCHANGED << status, loadError, loginFailure, storage, loadedSession, sync,
                    sessionStartedByReconnector, reconnectSubscription, loadPc, isNewLogin,
                    thrownInLoad, containerDisposed, storages, sessions, versionsRequests,
                    sessionStarts, afterDispose, ignoredStarts, containerFrame >>

\* what the container does after dispose() is recorded under its name
Noted(what) == IF containerDisposed THEN afterDispose \cup what ELSE afterDispose

\* _waitForFirstSync throws: the promise resolved and the sync status is Stopped; an
\* AbortError is caught and the function returns
WaitThrows == waitForFirstSyncHandle = "resolved" /\ syncStatus = "Stopped"

\* if (!this._sessionStartedByReconnector) { ... }, negated
StartedByReconnector == sessionStartedByReconnector

\* the promise of the waitFor handle settled: _waitForFirstSync ends, and when it
\* returns the status becomes Ready and the /versions request is made unless the
\* reconnector started the session
firstSyncSettled ==
    /\ loadPc = "wait"
    /\ waitForFirstSyncHandle \in {"resolved", "aborted"}
    /\ waitForFirstSyncHandle' = "null"
    /\ IF WaitThrows
       THEN /\ LoadCatch("sync.error")
            /\ UNCHANGED << versionsRequests, afterDispose >>
       ELSE /\ status' = "Ready"
            /\ UNCHANGED << loadError, thrownInLoad >>
            /\ IF StartedByReconnector
               THEN /\ loadPc' = "done"
                    /\ afterDispose' = Noted({"Ready"})
                    /\ UNCHANGED versionsRequests
               ELSE /\ loadPc' = "versions"
                    /\ versionsRequests' = versionsRequests + 1
                    /\ afterDispose' = Noted({"Ready", "versions"})
    /\ UNCHANGED << loginFailure, storage, loadedSession, sync, syncStatus,
                    sessionStartedByReconnector, reconnectSubscription, isNewLogin,
                    containerDisposed, storages, sessions, sessionStarts, ignoredStarts,
                    containerFrame >>

\* the storage the Session was given has been closed by dispose()
StorageClosed == containerDisposed /\ storage = "null" /\ storages > 0

\* hsApi.versions({timeout: 10000, log}).response() settles, and session.start is
\* called with the response
versionsResponse(ok) ==
    /\ loadPc = "versions"
    /\ IF ok
       THEN /\ Len(sessionStarts) < MaxStarts
            /\ sessionStarts' = Append(sessionStarts, "load")
            /\ loadPc' = "start"
            /\ afterDispose' = Noted({"session.start"}
                                       \cup IF StorageClosed THEN {"storage"} ELSE {})
            /\ UNCHANGED << loadError, thrownInLoad, status >>
       ELSE /\ LoadCatch("versions")
            /\ UNCHANGED << sessionStarts, afterDispose >>
    /\ UNCHANGED << loginFailure, storage, loadedSession, sync, syncStatus,
                    sessionStartedByReconnector, reconnectSubscription,
                    waitForFirstSyncHandle, isNewLogin, containerDisposed, storages,
                    sessions, versionsRequests, ignoredStarts, containerFrame >>

\* await this._session.start(lastVersionsResponse, log) settles
sessionStarted(ok) ==
    /\ loadPc = "start"
    /\ IF ok
       THEN loadPc' = "done" /\ UNCHANGED << loadError, thrownInLoad, status >>
       ELSE LoadCatch("session.start")
    /\ UNCHANGED << loginFailure, storage, loadedSession, sync, syncStatus,
                    sessionStartedByReconnector, reconnectSubscription,
                    waitForFirstSyncHandle, isNewLogin, containerDisposed, storages,
                    sessions, versionsRequests, sessionStarts, afterDispose, ignoredStarts,
                    containerFrame >>

\* the subscription of line 201 is called with ConnectionStatus.Online: the
\* detached "reconnect" task starts the scheduler, the sync and the session
reconnectorOnline ==
    /\ reconnectSubscription
    /\ Len(sessionStarts) < MaxStarts
    /\ syncStatus' = IF syncStatus = "Stopped" THEN "InitialSync" ELSE syncStatus
    /\ sessionStartedByReconnector' = TRUE
    /\ sessionStarts' = Append(sessionStarts, "reconnector")
    /\ UNCHANGED << status, loadError, loginFailure, storage, loadedSession, sync,
                    reconnectSubscription, waitForFirstSyncHandle, loadPc, isNewLogin,
                    thrownInLoad, containerDisposed, storages, sessions, versionsRequests,
                    afterDispose, ignoredStarts, containerFrame >>

\* dispose(); notified: sync.stop() sets the sync status at once, so that a pending
\* waitFor handle resolves before it is disposed; otherwise the handle is aborted
containerDispose(notified) ==
    /\ containerDisposed' = TRUE
    /\ reconnectSubscription' = FALSE
    /\ syncStatus' = IF sync = "created" THEN "Stopped" ELSE syncStatus
    /\ loadedSession' = IF loadedSession = "null" THEN "null" ELSE "disposed"
    /\ waitForFirstSyncHandle' =
          IF waitForFirstSyncHandle = "pending"
          THEN (IF notified THEN "resolved" ELSE "aborted")
          ELSE waitForFirstSyncHandle
    /\ storage' = "null"
    /\ UNCHANGED << status, loadError, loginFailure, sync, sessionStartedByReconnector,
                    loadPc, isNewLogin, thrownInLoad, storages, sessions, versionsRequests,
                    sessionStarts, afterDispose, ignoredStarts, containerFrame >>

NextContainer ==
    \/ startWithExistingSession
    \/ startWithLogin
    \/ \E r \in {"found", "missing", "throws"} : sessionInfoGet(r)
    \/ \E r \in {"ok"} \cup LoginErrors : passwordLogin(r)
    \/ \E r \in {"ok"} \cup LoginErrors : sessionInfoAdd(r)
    \/ \E ok \in BOOLEAN : storageCreate(ok)
    \/ \E ok \in BOOLEAN : olmLoaded(ok)
    \/ \E ok \in BOOLEAN, sr \in SyncStartOutcomes : sessionLoad(ok, sr)
    \/ \E ok \in BOOLEAN, sr \in SyncStartOutcomes : createIdentity(ok, sr)
    \/ \E s \in {"Syncing", "Stopped"} : syncChanges(s)
    \/ firstSyncSettled
    \/ \E ok \in BOOLEAN : versionsResponse(ok)
    \/ \E ok \in BOOLEAN : sessionStarted(ok)
    \/ reconnectorOnline
    \/ \E notified \in BOOLEAN : containerDispose(notified)

\* a SessionContainer on its own
InitContainerOnly ==
    /\ InitCacheOnly
    /\ inbound = {}

SpecContainer == InitContainerOnly /\ [][NextContainer]_vars

\* C33: the load status becomes Ready only in a step in which the wait for the
\* first sync ended with the sync status Syncing: not after the sync stopped, and
\* not after the wait was aborted
C33_ReadyOnlyAfterFirstSync ==
    [][ (status' = "Ready" /\ status # "Ready")
        => /\ waitForFirstSyncHandle = "resolved"
           /\ syncStatus = "Syncing" ]_vars

\* C34: once dispose() has been called the container does not set the status to
\* Ready, issues no /versions request, does not call session.start and does not
\* use the closed storage
C34_NothingAfterDispose == afterDispose = {}

\* C35: a start call takes effect only at status NotLoading; a start call made at
\* any other status changes neither the status nor the error, the login failure,
\* the session, the sync, the storage or the load in flight; at most one Session
\* and one Storage are created
C35_StartOnlyWhenNotLoading ==
    /\ [][ /\ (loadPc' # loadPc /\ loadPc' \in {"get", "login"}) => status = "NotLoading"
           /\ ignoredStarts' # ignoredStarts
                 => /\ status # "NotLoading"
                    /\ UNCHANGED << status, loadError, loginFailure, storage, loadedSession,
                                    sync, syncStatus, loadPc, storages, sessions >> ]_vars
    /\ [](sessions <= 1 /\ storages <= 1)

\* C35, its case: start calls made after a failed login were ignored
C35_Witness == ignoredStarts = MaxIgnored /\ status = "LoginFailed" /\ sessions = 0

\* where the start call is suspended within _loadSessionInfo
LoadPhase == {"create", "olm", "load", "identity", "wait", "versions", "start"}

\* C36: when the load met an error the status is Error and loadError is that
\* error, and no login failure is set; the load phase ends either so or with
\* status Ready and no error; the status becomes LoginFailed in the login phase
\* only
C36_LoadErrorGivesStatusError ==
    /\ [](thrownInLoad # "none"
             => status = "Error" /\ loadError = thrownInLoad /\ loginFailure = "null")
    /\ [][ /\ (loadPc \in LoadPhase \cup {"get"} /\ loadPc' = "done")
               => \/ status' = "Error" /\ thrownInLoad' # "none" /\ loadError' = thrownInLoad'
                  \/ status' = "Ready" /\ loadError' = "null"
           /\ (status' = "LoginFailed" /\ status # "LoginFailed")
               => loadPc \in {"login", "add"} ]_vars

\* C36, its case: after a login the first sync stopped with an error
C36_Witness == isNewLogin /\ status = "Error" /\ loadError = "sync.error"

\* C37: when the login request or the storing of the session info fails, the
\* error is kept and classified: M_FORBIDDEN gives LoginFailed with Credentials,
\* another HomeServerError LoginFailed with Unknown, a ConnectionError LoginFailed
\* with Connection, any other error status Error without a login failure; and no
\* storage, session or sync is ever created
C37_LoginFailureClassified ==
    /\ [][ (loadPc \in {"login", "add"} /\ loadPc' = "done")
            => /\ loadError' \in LoginErrors
               /\ loadError' = "M_FORBIDDEN"
                     => status' = "LoginFailed" /\ loginFailure' = "Credentials"
               /\ loadError' = "HomeServerError"
                     => status' = "LoginFailed" /\ loginFailure' = "Unknown"
               /\ loadError' = "ConnectionError"
                     => status' = "LoginFailed" /\ loginFailure' = "Connection"
               /\ loadError' = "Error"
                     => status' = "Error" /\ loginFailure' = "null" ]_vars
    /\ []((status = "LoginFailed" \/ (status = "Error" /\ thrownInLoad = "none"))
            => /\ storages = 0 /\ sessions = 0
               /\ storage = "null" /\ loadedSession = "null" /\ sync = "null"
               /\ loadPc = "done")

\* C37, its case: the login failed with a HomeServerError other than M_FORBIDDEN
C37_Witness ==
    status = "LoginFailed" /\ loginFailure = "Unknown" /\ loadError = "HomeServerError"

\* C38: _loadSessionInfo does not call session.start once the reconnect handler
\* has called it, and it calls session.start at most once, after its one
\* /versions request
C38_SessionStartedByOneOnly ==
    /\ \A i, j \in 1..Len(sessionStarts) :
          i < j => ~(sessionStarts[i] = "reconnector" /\ sessionStarts[j] = "load")
    /\ Cardinality({ i \in 1..Len(sessionStarts) : sessionStarts[i] = "load" })
          <= versionsRequests
    /\ versionsRequests <= 1

\* ---------------------------------------------------------------- createStores

\* the longest schema: schema.length is at most this
MaxVersion == 5

\* variant of StartIdx: the loop starts at the first migration
StartIdxZero(old) == 0

\* const startIdx = oldVersion || 0
StartIdx(old) == IF old = NoVersion \/ old = 0 THEN 0 ELSE old

\* createStores(db, txn, oldVersion, version) up to the first await of its loop
createStores(old, v) ==
    /\ migrationPc = "idle"
    /\ oldVersion' = old
    /\ version' = v
    /\ IF StartIdx(old) < v
       THEN /\ migrationIdx' = StartIdx(old)
            /\ migrationsRun' = << StartIdx(old) >>
            /\ migrationPc' = "running"
       ELSE /\ migrationIdx' = StartIdx(old)
            /\ migrationsRun' = << >>
            /\ migrationPc' = "done"
    /\ UNCHANGED << shareVars, decryptVars, cacheVars, clockVars, restoreVars, logVars,
                    containerVars >>

\* await schema[i](db, txn) settles: the loop goes on with ++i, or the rejection
\* ends createStores
migrationSettles(ok) ==
    /\ migrationPc = "running"
    /\ IF ~ok
       THEN /\ migrationPc' = "failed"
            /\ UNCHANGED << migrationIdx, migrationsRun >>
       ELSE /\ migrationIdx' = migrationIdx + 1
            /\ IF migrationIdx + 1 < version
               THEN /\ migrationsRun' = Append(migrationsRun, migrationIdx + 1)
                    /\ UNCHANGED migrationPc
               ELSE /\ migrationPc' = "done"
                    /\ UNCHANGED migrationsRun
    /\ UNCHANGED << shareVars, decryptVars, cacheVars, clockVars, restoreVars, logVars,
                    containerVars, oldVersion, version >>

\* openDatabase calls createStores with the version the database has (none for a
\* new one) and schema.length
NextSchema ==
    \/ \E v \in 1..MaxVersion : \E old \in {NoVersion} \cup 0..v : createStores(old, v)
    \/ \E ok \in BOOLEAN : migrationSettles(ok)

InitSchemaOnly == InitContainerOnly

SpecSchema == InitSchemaOnly /\ [][NextSchema]_vars

\* the index the claim names: oldVersion, 0 when absent
FirstMigration == IF oldVersion = NoVersion THEN 0 ELSE oldVersion

\* C39: the migrations started are those of the indices oldVersion (0 when absent),
\* oldVersion + 1, ... in this order, each once and none of an index of version or
\* more; one starts only in the step in which the one before it has settled; when
\* createStores returns all of them up to version - 1 have run, and none when
\* oldVersion equals version
C39_MigrationsInOrder ==
    /\ [](\A i \in 1..Len(migrationsRun) :
             migrationsRun[i] = FirstMigration + i - 1 /\ migrationsRun[i] < version)
    /\ [](migrationPc = "done"
             => Len(migrationsRun) = IF FirstMigration < version
                                        THEN version - FirstMigration ELSE 0)
    /\ [](migrationPc # "idle" /\ oldVersion = version => migrationsRun = << >>)
    /\ [][ (migrationPc # "idle" /\ migrationsRun' # migrationsRun)
             => /\ migrationPc = "running"
                /\ migrationsRun' = Append(migrationsRun, migrationIdx + 1) ]_vars

\* C39, its case: a database at version 2 was brought to version 4
C39_Witness ==
    migrationPc = "done" /\ oldVersion = 2 /\ version = 4 /\ migrationsRun = << 2, 3 >>

====
